---------------------------- MODULE Spec2Model ----------------------------
(***************************************************************************)
(* A model of the building-blocks lattice storage crates: the dense        *)
(* Array3 with its three coordinate kinds, bulk traversal and copy, and    *)
(* the Octree index built from an Array3.                                  *)
(*                                                                         *)
(* Points are triples <<x, y, z>>.  Strides are 0-based offsets into the   *)
(* value sequence, so the value at Stride(s) is values[s + 1].             *)
(***************************************************************************)
EXTENDS Integers, Sequences, FiniteSets, TLC

VARIABLES
    array,      \* the Array3 under test (octree source / copy source)
    dst,        \* a second Array3 (copy destination)
    octree,     \* the Octree built from array, or NoOctree / Panicked
    visited,    \* outcome of the last Octree::visit: [calls, status]
    writes,     \* number of accessor writes made so far
    op          \* record describing the last storage operation and its outcome

vars == <<array, dst, octree, visited, writes, op>>

-----------------------------------------------------------------------------
(* Bounds of the model.                                                    *)

\* Largest octree power explored (the code accepts 1..6).
MaxPower == 2
\* Largest number of single-voxel writes applied to a filled array.
MaxWrites == 2
\* Latest visitor call (counted from 1) that may answer Stop or ExitEarly.
MaxDeviation == 3
\* Largest edge of an Array3 in the storage specification.
MaxShape == 2
\* Largest edge of a requested extent in the storage specification.
MaxExtentShape == 3

\* Machine-word modulus of the model: usize arithmetic wraps at this value.
UsizeModulus == 2 ^ 20
\* u16 location codes wrap at 2^16, u8 bitmasks have 8 bits.
U16Modulus == 2 ^ 16

-----------------------------------------------------------------------------
(* Geometry: points and extents.                                           *)

X(p) == p[1]
Y(p) == p[2]
Z(p) == p[3]

PointAdd(p, q) == <<p[1] + q[1], p[2] + q[2], p[3] + q[3]>>
PointSub(p, q) == <<p[1] - q[1], p[2] - q[2], p[3] - q[3]>>
PointMulScalar(p, k) == <<k * p[1], k * p[2], k * p[3]>>

Max2(a, b) == IF a >= b THEN a ELSE b
Min2(a, b) == IF a <= b THEN a ELSE b

Join(p, q) == <<Max2(p[1], q[1]), Max2(p[2], q[2]), Max2(p[3], q[3])>>
Meet(p, q) == <<Min2(p[1], q[1]), Min2(p[2], q[2]), Min2(p[3], q[3])>>

\* Arithmetic right shift by one of a non-negative or negative i32.
Shr1(n) == n \div 2
RightShift1(p) == <<Shr1(p[1]), Shr1(p[2]), Shr1(p[3])>>

CornerOffsets ==
    << <<0, 0, 0>>, <<1, 0, 0>>, <<0, 1, 0>>, <<1, 1, 0>>,
       <<0, 0, 1>>, <<1, 0, 1>>, <<0, 1, 1>>, <<1, 1, 1>> >>

ExtentFromMinAndShape(m, s) == [minimum |-> m, shape |-> s]
LeastUpperBound(e) == PointAdd(e.minimum, e.shape)
NumPoints(e) == e.shape[1] * e.shape[2] * e.shape[3]

ExtentContains(e, p) ==
    /\ \A i \in 1..3 : e.minimum[i] <= p[i]
    /\ \A i \in 1..3 : p[i] < e.minimum[i] + e.shape[i]

ExtentPoints(e) ==
    { <<x, y, z>> : x \in e.minimum[1]..(e.minimum[1] + e.shape[1] - 1),
                    y \in e.minimum[2]..(e.minimum[2] + e.shape[2] - 1),
                    z \in e.minimum[3]..(e.minimum[3] + e.shape[3] - 1) }

Intersection(e1, e2) ==
    LET m == Join(e1.minimum, e2.minimum)
        lub == Meet(LeastUpperBound(e1), LeastUpperBound(e2))
    IN  ExtentFromMinAndShape(m, Join(PointSub(lub, m), <<0, 0, 0>>))

ExtentSubPoint(e, p) == ExtentFromMinAndShape(PointSub(e.minimum, p), e.shape)

-----------------------------------------------------------------------------
(* Stride and the dense array.                                             *)

\* `as usize` of a signed value: negative values wrap around.
AsUsize(n) == n % UsizeModulus

\* Stride addition that stops at the largest machine word instead of wrapping.
StrideAddSaturating(a, b) ==
    IF a + b >= UsizeModulus THEN UsizeModulus - 1 ELSE a + b

\* Add for Stride: wrapping_add; Sub for Stride: wrapping_sub.
StrideAdd(a, b) == (a + b) % UsizeModulus
StrideSub(a, b) == (a - b) % UsizeModulus

\* stride_from_point with the axes in column-major order.
StrideFromPointColumnMajor(s, p) == AsUsize(X(p) * Y(s) * Z(s) + Y(p) * Z(s) + Z(p))

StrideFromPoint(s, p) == AsUsize(Z(p) * Y(s) * X(s) + Y(p) * X(s) + X(p))

\* The outcome of an operation that fails fatally instead of returning.
Panic == [ok |-> FALSE]
\* The outcome of an operation that returns v.
Ok(v) == [ok |-> TRUE, value |-> v]

\* ArrayN::new without its assertion.
ArrayNewUnchecked(extent, values) == Ok([extent |-> extent, values |-> values])

\* ArrayN::new cutting surplus values off instead of failing.
ArrayNewTruncating(extent, values) ==
    IF NumPoints(extent) <= Len(values)
    THEN Ok([extent |-> extent, values |-> SubSeq(values, 1, NumPoints(extent))])
    ELSE Panic

\* ArrayN::new: asserts that the value count matches the extent.
ArrayNew(extent, values) ==
    IF NumPoints(extent) = Len(values)
    THEN Ok([extent |-> extent, values |-> values])
    ELSE Panic

\* ArrayN::fill
ArrayFill(extent, value) ==
    ArrayNew(extent, [i \in 1..NumPoints(extent) |-> value])

\* Checked access by Stride: slice indexing panics out of range.
GetStride(a, stride) ==
    IF stride < Len(a.values) THEN Ok(a.values[stride + 1]) ELSE Panic

GetLocal(a, local) == GetStride(a, StrideFromPoint(a.extent.shape, local))

GetPoint(a, p) == GetLocal(a, PointSub(p, a.extent.minimum))

\* Checked write by Stride (get_mut followed by an assignment).
SetStride(a, stride, v) ==
    IF stride < Len(a.values)
    THEN Ok([a EXCEPT !.values[stride + 1] = v])
    ELSE Panic

SetLocal(a, local, v) == SetStride(a, StrideFromPoint(a.extent.shape, local), v)

SetPoint(a, p, v) == SetLocal(a, PointSub(p, a.extent.minimum), v)

-----------------------------------------------------------------------------
(* Bulk traversal: Array3ForEachState and the two traversal routines.      *)

\* Array3ForEachState::new with y_stride taken from the y edge instead of the
\* x edge.
ForEachStateNewYEdge(array_shape, iter_min) ==
    LET x_stride == 1
        y_stride == AsUsize(Y(array_shape))
        z_stride == AsUsize(Y(array_shape) * X(array_shape))
    IN  [x_stride |-> x_stride, y_stride |-> y_stride, z_stride |-> z_stride,
         x_start |-> (x_stride * AsUsize(X(iter_min))) % UsizeModulus,
         y_start |-> (y_stride * AsUsize(Y(iter_min))) % UsizeModulus,
         z_start |-> (z_stride * AsUsize(Z(iter_min))) % UsizeModulus,
         x_i |-> 0, y_i |-> 0, z_i |-> 0]

\* Array3ForEachState::new
ForEachStateNew(array_shape, iter_min) ==
    LET x_stride == 1
        y_stride == AsUsize(X(array_shape))
        z_stride == AsUsize(Y(array_shape) * X(array_shape))
    IN  [x_stride |-> x_stride, y_stride |-> y_stride, z_stride |-> z_stride,
         x_start |-> (x_stride * AsUsize(X(iter_min))) % UsizeModulus,
         y_start |-> (y_stride * AsUsize(Y(iter_min))) % UsizeModulus,
         z_start |-> (z_stride * AsUsize(Z(iter_min))) % UsizeModulus,
         x_i |-> 0, y_i |-> 0, z_i |-> 0]

StateStride(st) == st.x_i
StartZ(st) == [st EXCEPT !.z_i = st.z_start]
StartY(st) == [st EXCEPT !.y_i = (st.z_i + st.y_start) % UsizeModulus]
StartX(st) == [st EXCEPT !.x_i = (st.y_i + st.x_start) % UsizeModulus]
IncrX(st) == [st EXCEPT !.x_i = (st.x_i + st.x_stride) % UsizeModulus]
IncrY(st) == [st EXCEPT !.y_i = (st.y_i + st.y_stride) % UsizeModulus]
IncrZ(st) == [st EXCEPT !.z_i = (st.z_i + st.z_stride) % UsizeModulus]

RECURSIVE PointLoopX(_, _, _, _, _, _)
\* for x in x..lub_x { f(PointN([x, y, z]), s.stride()); s.incr_x(); }
PointLoopX(st, x, lub_x, y, z, acc) ==
    IF x >= lub_x THEN [st |-> st, acc |-> acc]
    ELSE PointLoopX(IncrX(st), x + 1, lub_x, y, z,
                    Append(acc, [point |-> <<x, y, z>>, stride |-> StateStride(st)]))

RECURSIVE PointLoopY(_, _, _, _, _, _)
\* for y in y..lub.y { s.start_x(); <x loop>; s.incr_y(); }
PointLoopY(st, y, min, lub, z, acc) ==
    IF y >= Y(lub) THEN [st |-> st, acc |-> acc]
    ELSE LET r == PointLoopX(StartX(st), X(min), X(lub), y, z, acc)
         IN  PointLoopY(IncrY(r.st), y + 1, min, lub, z, r.acc)

RECURSIVE PointLoopZ(_, _, _, _, _)
\* for z in z..lub.z { s.start_y(); <y loop>; s.incr_z(); }
PointLoopZ(st, z, min, lub, acc) ==
    IF z >= Z(lub) THEN [st |-> st, acc |-> acc]
    ELSE LET r == PointLoopY(StartY(st), Y(min), min, lub, z, acc)
         IN  PointLoopZ(IncrZ(r.st), z + 1, min, lub, r.acc)

\* for_each_point_and_stride making its calls in the opposite order.
ForEachPointAndStrideReversed(array_extent, extent) ==
    LET global_extent == Intersection(extent, array_extent)
        global_lub == LeastUpperBound(global_extent)
        local_extent == ExtentSubPoint(global_extent, array_extent.minimum)
        st == ForEachStateNew(array_extent.shape, local_extent.minimum)
        acc == PointLoopZ(StartZ(st), Z(global_extent.minimum), global_extent.minimum,
                          global_lub, <<>>).acc
    IN  [i \in DOMAIN acc |-> acc[Len(acc) + 1 - i]]

\* Array3::for_each_point_and_stride: the calls f(point, stride), in order.
ForEachPointAndStride(array_extent, extent) ==
    LET global_extent == Intersection(extent, array_extent)
        global_lub == LeastUpperBound(global_extent)
        local_extent == ExtentSubPoint(global_extent, array_extent.minimum)
        st == ForEachStateNew(array_extent.shape, local_extent.minimum)
    IN  PointLoopZ(StartZ(st), Z(global_extent.minimum), global_extent.minimum,
                   global_lub, <<>>).acc

RECURSIVE ParallelLoopX(_, _, _, _, _)
\* The innermost loop running over 0..=shape.x instead of 0..shape.x.
ParallelLoopXInclusive(s1, s2, x, shape, acc) ==
    IF x > X(shape) THEN [s1 |-> s1, s2 |-> s2, acc |-> acc]
    ELSE ParallelLoopX(IncrX(s1), IncrX(s2), x + 1, shape,
                       Append(acc, <<StateStride(s1), StateStride(s2)>>))

\* for _x in x..shape.x { f(s1.stride(), s2.stride()); s1.incr_x(); s2.incr_x(); }
ParallelLoopX(s1, s2, x, shape, acc) ==
    IF x >= X(shape) THEN [s1 |-> s1, s2 |-> s2, acc |-> acc]
    ELSE ParallelLoopX(IncrX(s1), IncrX(s2), x + 1, shape,
                       Append(acc, <<StateStride(s1), StateStride(s2)>>))

RECURSIVE ParallelLoopY(_, _, _, _, _)
ParallelLoopY(s1, s2, y, shape, acc) ==
    IF y >= Y(shape) THEN [s1 |-> s1, s2 |-> s2, acc |-> acc]
    ELSE LET r == ParallelLoopX(StartX(s1), StartX(s2), 0, shape, acc)
         IN  ParallelLoopY(IncrY(r.s1), IncrY(r.s2), y + 1, shape, r.acc)

RECURSIVE ParallelLoopZ(_, _, _, _, _)
ParallelLoopZ(s1, s2, z, shape, acc) ==
    IF z >= Z(shape) THEN [s1 |-> s1, s2 |-> s2, acc |-> acc]
    ELSE LET r == ParallelLoopY(StartY(s1), StartY(s2), 0, shape, acc)
         IN  ParallelLoopZ(IncrZ(r.s1), IncrZ(r.s2), z + 1, shape, r.acc)

\* for_each_stride_parallel with both local minima taken relative to the
\* first array.
ForEachStrideParallelSameOrigin(iter_extent, array1_extent, array2_extent) ==
    LET min1 == PointSub(iter_extent.minimum, array1_extent.minimum)
        s1 == ForEachStateNew(array1_extent.shape, min1)
        s2 == ForEachStateNew(array2_extent.shape, min1)
    IN  ParallelLoopZ(StartZ(s1), StartZ(s2), 0, iter_extent.shape, <<>>).acc

\* Array3::for_each_stride_parallel: the calls f(stride1, stride2), in order.
ForEachStrideParallel(iter_extent, array1_extent, array2_extent) ==
    LET min1 == PointSub(iter_extent.minimum, array1_extent.minimum)
        min2 == PointSub(iter_extent.minimum, array2_extent.minimum)
        s1 == ForEachStateNew(array1_extent.shape, min1)
        s2 == ForEachStateNew(array2_extent.shape, min2)
    IN  ParallelLoopZ(StartZ(s1), StartZ(s2), 0, iter_extent.shape, <<>>).acc

\* ForEachRef<(PointN, Stride)>::for_each_ref: the calls f((p, stride), value)
\* in order.  The value is read with get_unchecked_ref_release; a read past the
\* end of the values is undefined behaviour and yields the arbitrary value ub.
ForEachRefCalls(a, extent, ub) ==
    LET ps == ForEachPointAndStride(a.extent, extent)
    IN  [i \in DOMAIN ps |->
           [point |-> ps[i].point, stride |-> ps[i].stride,
            value |-> IF ps[i].stride < Len(a.values)
                      THEN a.values[ps[i].stride + 1] ELSE ub]]

-----------------------------------------------------------------------------
(* The copy protocol.                                                      *)

\* ReadExtent for ArrayN: one (extent, source) pair, clipped to the source.
ReadExtent(src, extent) ==
    << [extent |-> Intersection(extent, src.extent), src |-> src] >>

\* The closure of write_extent adding the source's value to the destination's
\* instead of overwriting it.
CopyClosureAccumulates(r, src_array, s_dst, s_src) ==
    IF s_dst < Len(r.array.values) /\ s_src < Len(src_array.values)
    THEN [r EXCEPT !.array.values[s_dst + 1] = @ + src_array.values[s_src + 1]]
    ELSE [r EXCEPT !.ub = TRUE]

\* The closure of write_extent:
\* *dst.get_unchecked_mut(s_dst) = src.get_unchecked(s_src).  An access past
\* the end of either value vector is undefined behaviour: it is recorded in
\* `ub`.
CopyClosure(r, src_array, s_dst, s_src) ==
    IF s_dst < Len(r.array.values) /\ s_src < Len(src_array.values)
    THEN [r EXCEPT !.array.values[s_dst + 1] = src_array.values[s_src + 1]]
    ELSE [r EXCEPT !.ub = TRUE]

RECURSIVE CopyStrides(_, _, _, _)
\* The closure applied to the stride pairs from index i on, in call order.
CopyStrides(r, src_array, pairs, i) ==
    IF i > Len(pairs) THEN r
    ELSE CopyStrides(CopyClosure(r, src_array, pairs[i][1], pairs[i][2]),
                     src_array, pairs, i + 1)

\* write_extent without the intersection with the destination's extent.
WriteExtentUnclipped(dst_array, extent, src_array) ==
    LET dst_extent == dst_array.extent
        pairs == ForEachStrideParallel(extent, dst_extent, src_array.extent)
    IN  CopyStrides([array |-> dst_array, ub |-> FALSE, pairs |-> pairs],
                    src_array, pairs, 1)

\* WriteExtent<ArrayCopySrc> for ArrayN: the destination after the write.
WriteExtent(dst_array, extent, src_array) ==
    LET dst_extent == dst_array.extent
        in_bounds_extent == Intersection(extent, dst_extent)
        pairs == ForEachStrideParallel(in_bounds_extent, dst_extent, src_array.extent)
    IN  CopyStrides([array |-> dst_array, ub |-> FALSE, pairs |-> pairs],
                    src_array, pairs, 1)

RECURSIVE WriteAll(_, _, _)
WriteAll(r, reads, i) ==
    IF i > Len(reads) THEN r
    ELSE LET w == WriteExtent(r.array, reads[i].extent, reads[i].src)
         IN  WriteAll([array |-> w.array, ub |-> r.ub \/ w.ub,
                       pairs |-> r.pairs \o w.pairs], reads, i + 1)

\* copy_extent: every pair read from the source is written to the destination.
CopyExtent(extent, src_map, dst_map) ==
    WriteAll([array |-> dst_map, ub |-> FALSE, pairs |-> <<>>],
             ReadExtent(src_map, extent), 1)

-----------------------------------------------------------------------------
(* Octree: location codes, construction and traversal.                     *)

\* The element type's IsEmpty: the voxel value 0 is the empty voxel.
IsEmpty(v) == v = 0

Bit(mask, i) == (mask \div (2 ^ i)) % 2

RECURSIVE BitOr(_, _)
BitOr(a, b) ==
    IF a = 0 THEN b
    ELSE IF b = 0 THEN a
    ELSE Max2(a % 2, b % 2) + 2 * BitOr(a \div 2, b \div 2)

\* extend on an 8-bit location code.
ExtendU8(location) == (location * 8) % (2 ^ 8)

\* LocationCode::extend: a left shift by 3 on a u16 drops the high bits.
Extend(location) == (location * 8) % U16Modulus

WithLowestOctant(location, octant) == BitOr(location, octant)

RootLocation == 1

\* No octree has been constructed yet / from_array failed an assertion.
NoOctree == [built |-> FALSE, panicked |-> FALSE]
PanickedOctree == [built |-> FALSE, panicked |-> TRUE]

Continue == "Continue"
Stop == "Stop"
ExitEarly == "ExitEarly"
VisitStatus == {Continue, Stop, ExitEarly}

\* Array::strides_from_points
StridesFromPoints(a, points) ==
    [i \in DOMAIN points |-> StrideFromPoint(a.extent.shape, points[i])]

RECURSIVE PartitionArray(_, _, _, _, _, _)
RECURSIVE PartitionChildren(_, _, _, _, _, _, _, _)

\* The loop over the 8 octants in partition_array, from index `octant` on
\* (0-based), threading the node map and the bitmask built so far.
PartitionChildren(extended_location, minimum, half_edge_len, octant_corner_strides, a, nodes, octant, child_bitmask) ==
    IF octant = 8
    THEN [child_bitmask |-> child_bitmask, nodes |-> nodes, panicked |-> FALSE]
    ELSE LET octant_min == StrideAdd(minimum, octant_corner_strides[octant + 1])
             octant_location == WithLowestOctant(extended_location, octant)
             child == PartitionArray(octant_location, octant_min, half_edge_len,
                                     octant_corner_strides, a, nodes)
             bit == IF child.exists THEN 2 ^ octant ELSE 0
         IN  IF child.panicked
             THEN [child_bitmask |-> child_bitmask, nodes |-> nodes,
                   panicked |-> TRUE]
             ELSE
             PartitionChildren(extended_location, minimum, half_edge_len,
                               octant_corner_strides, a, child.nodes,
                               octant + 1, BitOr(child_bitmask, bit))

\* partition_array without the `!is_leaf` test: every existing octant is
\* stored, full ones included.
PartitionArrayStoresFull(location, minimum, edge_len, corner_strides, a, nodes) ==
    IF edge_len = 1
    THEN LET v == GetStride(a, minimum) IN
         IF v.ok
         THEN [exists |-> ~IsEmpty(v.value), nodes |-> nodes, panicked |-> FALSE]
         ELSE [exists |-> FALSE, nodes |-> nodes, panicked |-> TRUE]
    ELSE LET octant_corner_strides ==
                 [i \in DOMAIN corner_strides |-> corner_strides[i] \div 2]
             r == PartitionChildren(Extend(location), minimum, edge_len \div 2,
                                    octant_corner_strides, a, nodes, 0, 0)
             exists == r.child_bitmask # 0
         IN  [exists |-> exists,
              panicked |-> r.panicked,
              nodes  |-> IF exists
                         THEN [c \in DOMAIN r.nodes \cup {location} |->
                                 IF c = location THEN r.child_bitmask
                                 ELSE r.nodes[c]]
                         ELSE r.nodes]

PartitionArray(location, minimum, edge_len, corner_strides, a, nodes) ==
    IF edge_len = 1
    THEN LET v == GetStride(a, minimum) IN
         IF v.ok
         THEN [exists |-> ~IsEmpty(v.value), nodes |-> nodes, panicked |-> FALSE]
         ELSE [exists |-> FALSE, nodes |-> nodes, panicked |-> TRUE]
    ELSE LET octant_corner_strides ==
                 [i \in DOMAIN corner_strides |-> corner_strides[i] \div 2]
             half_edge_len == edge_len \div 2
             r == PartitionChildren(Extend(location), minimum, half_edge_len,
                                    octant_corner_strides, a, nodes, 0, 0)
             is_leaf == r.child_bitmask = 255
             exists == r.child_bitmask # 0
         IN  [exists |-> exists,
              panicked |-> r.panicked,
              nodes  |-> IF exists /\ ~is_leaf
                         THEN [c \in DOMAIN r.nodes \cup {location} |->
                                 IF c = location THEN r.child_bitmask
                                 ELSE r.nodes[c]]
                         ELSE r.nodes]

EmptyNodes == [c \in {} |-> 0]

\* The largest exponent the 16-bit location code allows (power <= 6).
MaxAcceptedPower == 6

\* Octree::from_array, including its two assertions.
FromArray(power, a) ==
    IF ~(power > 0 /\ power <= MaxAcceptedPower) THEN PanickedOctree
    ELSE LET edge_len == 2 ^ power IN
         IF <<edge_len, edge_len, edge_len>> # a.extent.shape THEN PanickedOctree
         ELSE LET corner_offsets ==
                      [i \in 1..8 |-> PointMulScalar(CornerOffsets[i], edge_len)]
                  corner_strides == StridesFromPoints(a, corner_offsets)
                  r == PartitionArray(RootLocation, 0, edge_len, corner_strides,
                                      a, EmptyNodes)
              IN  IF r.panicked THEN PanickedOctree ELSE
                  [built |-> TRUE,
                   panicked |-> FALSE,
                   root_level |-> power - 1,
                   root_exists |-> r.exists,
                   extent |-> a.extent,
                   nodes |-> r.nodes]

\* edge_length computed as 1 << root_level.
EdgeLengthOfLevel(t) == 2 ^ t.root_level

\* Octree::edge_length: 1 << (root_level + 1)
EdgeLength(t) == 2 ^ (t.root_level + 1)

OctreeIsEmpty(t) == ~t.root_exists

\* The visitor of the model answers its k-th call with visitor[k] and with
\* Continue once the sequence is used up.
VisitOctant(visitor, calls, octant, is_leaf) ==
    LET k == Len(calls) + 1
    IN  [status |-> IF k <= Len(visitor) THEN visitor[k] ELSE Continue,
         calls |-> Append(calls, [minimum |-> octant.minimum,
                                  edge_length |-> octant.edge_length,
                                  is_leaf |-> is_leaf])]

RECURSIVE VisitRec(_, _, _, _, _, _, _)
RECURSIVE VisitChildren(_, _, _, _, _, _, _, _, _)

\* The loop over the 8 octants with the status of each child discarded.
VisitChildrenIgnoringExit(t, extended_location, minimum, half_edge_length, octant_corner_offsets, child_bitmask, visitor, calls, octant) ==
    IF octant = 8 THEN [status |-> Continue, calls |-> calls]
    ELSE IF Bit(child_bitmask, octant) = 0
    THEN VisitChildren(t, extended_location, minimum, half_edge_length,
                       octant_corner_offsets, child_bitmask, visitor, calls,
                       octant + 1)
    ELSE LET octant_min == PointAdd(minimum, octant_corner_offsets[octant + 1])
             octant_location == WithLowestOctant(extended_location, octant)
             r == VisitRec(t, octant_location, octant_min, half_edge_length,
                           octant_corner_offsets, visitor, calls)
         IN  VisitChildren(t, extended_location, minimum, half_edge_length,
                           octant_corner_offsets, child_bitmask, visitor,
                           r.calls, octant + 1)

\* The loop over the 8 octants ended by any child status but Continue.
VisitChildrenStopEndsLoop(t, extended_location, minimum, half_edge_length, octant_corner_offsets, child_bitmask, visitor, calls, octant) ==
    IF octant = 8 THEN [status |-> Continue, calls |-> calls]
    ELSE IF Bit(child_bitmask, octant) = 0
    THEN VisitChildren(t, extended_location, minimum, half_edge_length,
                       octant_corner_offsets, child_bitmask, visitor, calls,
                       octant + 1)
    ELSE LET octant_min == PointAdd(minimum, octant_corner_offsets[octant + 1])
             octant_location == WithLowestOctant(extended_location, octant)
             r == VisitRec(t, octant_location, octant_min, half_edge_length,
                           octant_corner_offsets, visitor, calls)
         IN  IF r.status # Continue
             THEN [status |-> r.status, calls |-> r.calls]
             ELSE VisitChildren(t, extended_location, minimum, half_edge_length,
                                octant_corner_offsets, child_bitmask, visitor,
                                r.calls, octant + 1)

\* The loop over the 8 octants taking the corner offsets in reverse order.
VisitChildrenMirroredCorner(t, extended_location, minimum, half_edge_length, octant_corner_offsets, child_bitmask, visitor, calls, octant) ==
    IF octant = 8 THEN [status |-> Continue, calls |-> calls]
    ELSE IF Bit(child_bitmask, octant) = 0
    THEN VisitChildren(t, extended_location, minimum, half_edge_length,
                       octant_corner_offsets, child_bitmask, visitor, calls,
                       octant + 1)
    ELSE LET octant_min == PointAdd(minimum, octant_corner_offsets[8 - octant])
             octant_location == WithLowestOctant(extended_location, octant)
             r == VisitRec(t, octant_location, octant_min, half_edge_length,
                           octant_corner_offsets, visitor, calls)
         IN  IF r.status = ExitEarly
             THEN [status |-> ExitEarly, calls |-> r.calls]
             ELSE VisitChildren(t, extended_location, minimum, half_edge_length,
                                octant_corner_offsets, child_bitmask, visitor,
                                r.calls, octant + 1)

\* The loop over the 8 octants in _visit, from index `octant` on.
VisitChildren(t, extended_location, minimum, half_edge_length, octant_corner_offsets, child_bitmask, visitor, calls, octant) ==
    IF octant = 8 THEN [status |-> Continue, calls |-> calls]
    ELSE IF Bit(child_bitmask, octant) = 0
    THEN VisitChildren(t, extended_location, minimum, half_edge_length,
                       octant_corner_offsets, child_bitmask, visitor, calls,
                       octant + 1)
    ELSE LET octant_min == PointAdd(minimum, octant_corner_offsets[octant + 1])
             octant_location == WithLowestOctant(extended_location, octant)
             r == VisitRec(t, octant_location, octant_min, half_edge_length,
                           octant_corner_offsets, visitor, calls)
         IN  IF r.status = ExitEarly
             THEN [status |-> ExitEarly, calls |-> r.calls]
             ELSE VisitChildren(t, extended_location, minimum, half_edge_length,
                                octant_corner_offsets, child_bitmask, visitor,
                                r.calls, octant + 1)

\* _visit descending below an inner octant unless the answer is ExitEarly.
VisitRecDescendsAfterStop(t, location, minimum, edge_length, corner_offsets, visitor, calls) ==
    LET octant == [minimum |-> minimum, edge_length |-> edge_length] IN
    IF edge_length = 1 THEN VisitOctant(visitor, calls, octant, TRUE)
    ELSE IF location \notin DOMAIN t.nodes
    THEN VisitOctant(visitor, calls, octant, TRUE)
    ELSE LET child_bitmask == t.nodes[location]
             v == VisitOctant(visitor, calls, octant, FALSE)
         IN  IF v.status = ExitEarly THEN v
             ELSE VisitChildren(t, Extend(location), minimum, edge_length \div 2,
                                [i \in DOMAIN corner_offsets |->
                                    RightShift1(corner_offsets[i])],
                                child_bitmask, visitor, v.calls, 0)

\* _visit handing the parent's corner offsets to the children unhalved.
VisitRecUnshiftedCorners(t, location, minimum, edge_length, corner_offsets, visitor, calls) ==
    LET octant == [minimum |-> minimum, edge_length |-> edge_length] IN
    IF edge_length = 1 THEN VisitOctant(visitor, calls, octant, TRUE)
    ELSE IF location \notin DOMAIN t.nodes
    THEN VisitOctant(visitor, calls, octant, TRUE)
    ELSE LET child_bitmask == t.nodes[location]
             v == VisitOctant(visitor, calls, octant, FALSE)
         IN  IF v.status # Continue THEN v
             ELSE VisitChildren(t, Extend(location), minimum, edge_length \div 2,
                                corner_offsets, child_bitmask, visitor, v.calls, 0)

\* Octree::_visit
VisitRec(t, location, minimum, edge_length, corner_offsets, visitor, calls) ==
    LET octant == [minimum |-> minimum, edge_length |-> edge_length] IN
    IF edge_length = 1 THEN VisitOctant(visitor, calls, octant, TRUE)
    ELSE IF location \notin DOMAIN t.nodes
    THEN VisitOctant(visitor, calls, octant, TRUE)
    ELSE LET child_bitmask == t.nodes[location]
             v == VisitOctant(visitor, calls, octant, FALSE)
         IN  IF v.status # Continue THEN v
             ELSE VisitChildren(t, Extend(location), minimum, edge_length \div 2,
                                [i \in DOMAIN corner_offsets |->
                                    RightShift1(corner_offsets[i])],
                                child_bitmask, visitor, v.calls, 0)

\* visit without the early return on a missing root.
VisitWithoutRootCheck(t, visitor) ==
    LET edge_len == EdgeLength(t) IN
    VisitRec(t, RootLocation, t.extent.minimum, edge_len,
             [i \in 1..8 |-> PointMulScalar(CornerOffsets[i], edge_len)],
             visitor, <<>>)

\* Octree::visit
Visit(t, visitor) ==
    IF ~t.root_exists THEN [status |-> Continue, calls |-> <<>>]
    ELSE LET edge_len == EdgeLength(t) IN
         VisitRec(t, RootLocation, t.extent.minimum, edge_len,
                  [i \in 1..8 |-> PointMulScalar(CornerOffsets[i], edge_len)],
                  visitor, <<>>)

-----------------------------------------------------------------------------
(* The octree specification: an occupancy array is filled, some voxels are  *)
(* overwritten, an octree is built from it and then traversed.             *)

\* Minimum corners of the occupancy arrays explored.
OctreeMinima == { <<-2, 1, 3>> }

\* Voxel values: 0 is empty, 1 is occupied.
Voxels == {0, 1}

EmptyArray == [extent |-> ExtentFromMinAndShape(<<0, 0, 0>>, <<0, 0, 0>>),
               values |-> <<>>]

NotVisited == [done |-> FALSE, visitor |-> <<>>, calls |-> <<>>,
               status |-> Continue]

NoOp == [kind |-> "none"]

RECURSIVE SeqsUpTo(_, _)
\* All sequences over S of length at most n.
SeqsUpTo(S, n) ==
    IF n = 0 THEN { <<>> }
    ELSE LET shorter == SeqsUpTo(S, n - 1)
         IN  shorter \cup { Append(q, x) : q \in { r \in shorter : Len(r) = n - 1 },
                                           x \in S }

\* The visitors explored: every answer is Continue, except possibly one
\* Stop or ExitEarly among the first MaxDeviation calls.
Visitors ==
    { [k \in 1..n |-> IF k = n THEN st ELSE Continue] :
        n \in 1..MaxDeviation, st \in {Stop, ExitEarly} } \cup { <<>> }

\* The voxels a single write may target: those whose local coordinates are
\* 0, 1 or the last one along every axis.
WritePoints(e) ==
    { p \in ExtentPoints(e) :
        \A i \in 1..3 : p[i] - e.minimum[i] \in {0, 1, e.shape[i] - 1} }

\* The cube array whose octant 0 is occupied and whose other voxels are empty.
OctantArray(extent) ==
    LET half == X(extent.shape) \div 2
    IN  ArrayNew(extent,
                 [i \in 1..NumPoints(extent) |->
                     IF /\ (i - 1) % X(extent.shape) < half
                        /\ ((i - 1) \div X(extent.shape)) % Y(extent.shape) < half
                        /\ (i - 1) \div (X(extent.shape) * Y(extent.shape)) < half
                     THEN 1 ELSE 0]).value

OctInit ==
    /\ \E power \in 0..MaxPower, m \in OctreeMinima :
         LET edge_len == 2 ^ power
             extent == ExtentFromMinAndShape(m, <<edge_len, edge_len, edge_len>>)
         IN  \/ \E v \in Voxels : array = ArrayFill(extent, v).value
             \/ power > 0 /\ array = OctantArray(extent)
    /\ dst = EmptyArray
    /\ octree = NoOctree
    /\ visited = NotVisited
    /\ writes = 0
    /\ op = NoOp

\* *array.get_mut(&p) = v on the occupancy array before the octree is built.
SetVoxel ==
    /\ octree = NoOctree
    /\ writes < MaxWrites
    /\ \E p \in WritePoints(array.extent), v \in Voxels :
         /\ GetPoint(array, p) # Ok(v)
         /\ LET r == SetPoint(array, p, v) IN
              /\ r.ok
              /\ array' = r.value
    /\ writes' = writes + 1
    /\ UNCHANGED <<dst, octree, visited, op>>

\* Octree::from_array(power, &array)
BuildOctree ==
    /\ octree = NoOctree
    /\ \E power \in 0..(MaxPower + 1) \cup {MaxAcceptedPower + 1} :
         /\ octree' = FromArray(power, array)
         /\ op' = [kind |-> "from_array", power |-> power]
    /\ UNCHANGED <<array, dst, visited, writes>>

\* octree.visit(&mut visitor)
VisitOctree ==
    /\ octree.built
    /\ ~visited.done
    /\ \E visitor \in Visitors :
         LET r == Visit(octree, visitor) IN
         visited' = [done |-> TRUE, visitor |-> visitor, calls |-> r.calls,
                     status |-> r.status]
    /\ UNCHANGED <<array, dst, octree, writes, op>>

OctNext ==
    \/ SetVoxel
    \/ BuildOctree
    \/ VisitOctree

SpecOctree == OctInit /\ [][OctNext]_vars

-----------------------------------------------------------------------------
(* The array specification: one accessor call or one bulk traversal on a   *)
(* freshly constructed Array3.                                             *)

\* Edge lengths of the arrays explored: 1 and the largest one.
ArrayEdges == {1, MaxShape}
ArrayShapes == { <<x, y, z>> : x \in ArrayEdges, y \in ArrayEdges, z \in ArrayEdges }

\* Minimum corners of the arrays explored.
ArrayMinima == { <<0, 0, 0>>, <<-1, 2, 1>> }

\* ArrayN::new(extent, values) with pairwise distinct values sign * 1, 2, ...
DistinctArray(extent, sign) ==
    ArrayNew(extent, [i \in 1..NumPoints(extent) |-> sign * i]).value

\* The extents requested from an array with extent e: they start up to one
\* step before or after e.minimum and have edges 0..MaxExtentShape.
RequestedExtents(e) ==
    { ExtentFromMinAndShape(PointAdd(e.minimum, <<dx, dy, dz>>), <<sx, sy, sz>>) :
        dx \in -1..1, dy \in -1..1, dz \in -1..1,
        sx \in 0..MaxExtentShape, sy \in 0..MaxExtentShape, sz \in 0..MaxExtentShape }

\* Local points in and one step around the shape.
LocalCoords(a) ==
    { <<x, y, z>> : x \in -1..X(a.extent.shape), y \in -1..Y(a.extent.shape),
                    z \in -1..Z(a.extent.shape) }

\* Strides in and up to two past the value vector.
StrideCoords(a) == 0..(Len(a.values) + 1)

\* The value written by the accessor writes; no array starts with it.
Fresh == 0

\* Values an out-of-range unchecked read may produce.
UndefinedReads == {Fresh, 1}

\* The checked read accessors (get, get_ref), by coordinate kind.
CheckedGet(a, kind, at) ==
    CASE kind = "Stride" -> GetStride(a, at[1])
      [] kind = "Local"  -> GetLocal(a, at)
      [] kind = "Point"  -> GetPoint(a, at)

\* *a.get_mut(coordinate) = v, by coordinate kind.
CheckedSet(a, kind, at, v) ==
    CASE kind = "Stride" -> SetStride(a, at[1], v)
      [] kind = "Local"  -> SetLocal(a, at, v)
      [] kind = "Point"  -> SetPoint(a, at, v)

ArrInit ==
    /\ \E m \in ArrayMinima, sh \in ArrayShapes :
         array = DistinctArray(ExtentFromMinAndShape(m, sh), 1)
    /\ dst = EmptyArray
    /\ octree = NoOctree
    /\ visited = NotVisited
    /\ writes = 0
    /\ op = NoOp

\* array.for_each_ref(&extent, |(p, stride), value| ...)
ForEachRef ==
    /\ op.kind = "none"
    /\ \E extent \in RequestedExtents(array.extent), ub \in UndefinedReads :
         op' = [kind |-> "for_each_ref", extent |-> extent,
                calls |-> ForEachRefCalls(array, extent, ub)]
    /\ UNCHANGED <<array, dst, octree, visited, writes>>

\* The three coordinate kinds an array is indexed by.
CoordinateKinds == {"Stride", "Local", "Point"}

\* The coordinates tried with an accessor of the given kind; a Stride is the
\* one-field tuple struct Stride(usize), the others are three-component points.
Coords(a, kind) ==
    CASE kind = "Stride" -> { <<s>> : s \in StrideCoords(a) }
      [] kind = "Local"  -> LocalCoords(a)
      [] kind = "Point"  -> { PointAdd(l, a.extent.minimum) : l \in LocalCoords(a) }

\* array.get(coordinate) / array.get_ref(coordinate)
GetAt ==
    /\ op.kind = "none"
    /\ \E kind \in CoordinateKinds : \E at \in Coords(array, kind) :
         op' = [kind |-> "get", coord |-> kind, at |-> at,
                result |-> CheckedGet(array, kind, at)]
    /\ UNCHANGED <<array, dst, octree, visited, writes>>

\* *array.get_mut(coordinate) = Fresh
SetAt ==
    /\ op.kind = "none"
    /\ \E kind \in CoordinateKinds : \E at \in Coords(array, kind) :
         LET r == CheckedSet(array, kind, at, Fresh) IN
         /\ array' = IF r.ok THEN r.value ELSE array
         /\ op' = [kind |-> "set", coord |-> kind, at |-> at, before |-> array,
                   result |-> IF r.ok THEN Ok(Fresh) ELSE Panic]
    /\ writes' = writes + 1
    /\ UNCHANGED <<dst, octree, visited>>

\* The transforms a view is built with: value -> scale * value + offset
\* (|value| value + 1 of the crate's tests, and a transform changing sign).
Transforms == { [scale |-> 1, offset |-> 1], [scale |-> -2, offset |-> 0] }

\* (self.transform)(value)
Apply(f, value) == f.scale * value + f.offset

\* A view whose accessors return the delegate's value untransformed.
TransformGetUntransformed(m, f, kind, at) == CheckedGet(m, kind, at)

\* Get / GetRef for TransformMap: (self.transform)(self.delegate.get(c));
\* the delegate's panic is the view's panic.
TransformGet(m, f, kind, at) ==
    LET r == CheckedGet(m, kind, at)
    IN  IF r.ok THEN Ok(Apply(f, r.value)) ELSE Panic

\* ForEachRef for TransformMap:
\* self.delegate.for_each_ref(extent, |c, t| f(c, (self.transform)(t)))
TransformForEachRefCalls(m, f, extent, ub) ==
    LET cs == ForEachRefCalls(m, extent, ub)
    IN  [i \in DOMAIN cs |-> [cs[i] EXCEPT !.value = Apply(f, @)]]

\* TransformMap::new(&array, &f).get(coordinate)
TransformGetAt ==
    /\ op.kind = "none"
    /\ \E f \in Transforms, kind \in CoordinateKinds : \E at \in Coords(array, kind) :
         op' = [kind |-> "view_get", f |-> f, coord |-> kind, at |-> at,
                result |-> TransformGet(array, f, kind, at)]
    /\ UNCHANGED <<array, dst, octree, visited, writes>>

\* TransformMap::new(&array, &f).for_each_ref(&extent, |(p, stride), value| ...)
TransformForEachRef ==
    /\ op.kind = "none"
    /\ \E f \in Transforms, extent \in RequestedExtents(array.extent),
          ub \in UndefinedReads :
         op' = [kind |-> "view_for_each_ref", f |-> f, extent |-> extent,
                calls |-> TransformForEachRefCalls(array, f, extent, ub)]
    /\ UNCHANGED <<array, dst, octree, visited, writes>>

\* The closures passed to for_each_mut: *value = scale * *value + offset; the
\* first one is the assignment *value = Fresh.
Mutators == { [scale |-> 0, offset |-> Fresh] } \cup Transforms

RECURSIVE ApplyCalls(_, _, _, _)
\* The closure f(coords, self.get_unchecked_mut_release(stride)) applied to the
\* calls from index i on.  A stride past the end of the values is undefined
\* behaviour, recorded in `ub`.
ApplyCalls(r, f, calls, i) ==
    IF i > Len(calls) THEN r
    ELSE LET stride == calls[i].stride
         IN  IF stride < Len(r.array.values)
             THEN ApplyCalls([r EXCEPT !.array.values[stride + 1] = Apply(f, @)],
                             f, calls, i + 1)
             ELSE ApplyCalls([r EXCEPT !.ub = TRUE], f, calls, i + 1)

\* for_each_mut that ignores the requested extent and mutates the whole array.
ForEachMutWholeArray(a, extent, f) ==
    ApplyCalls([array |-> a, ub |-> FALSE], f,
               ForEachPointAndStride(a.extent, a.extent), 1)

\* ForEachMut for ArrayN::for_each_mut: the array afterwards.
ForEachMutResult(a, extent, f) ==
    ApplyCalls([array |-> a, ub |-> FALSE], f,
               ForEachPointAndStride(a.extent, extent), 1)

\* array.for_each_mut(&extent, |coords, value| *value = f(*value))
ForEachMut ==
    /\ op.kind = "none"
    /\ \E f \in Mutators, extent \in RequestedExtents(array.extent) :
         LET r == ForEachMutResult(array, extent, f) IN
         /\ array' = r.array
         /\ op' = [kind |-> "for_each_mut", f |-> f, extent |-> extent,
                   before |-> array, ub |-> r.ub]
    /\ writes' = writes + 1
    /\ UNCHANGED <<dst, octree, visited>>

\* Relative offsets between neighbouring points: every component is -1, 0 or
\* 1 (the von Neumann and Moore offsets).
NeighborOffsets == { <<x, y, z>> : x \in -1..1, y \in -1..1, z \in -1..1 }

\* The local points of an array.
LocalPoints(a) ==
    { PointSub(p, a.extent.minimum) : p \in ExtentPoints(a.extent) }

\* array.get(stride + offset_stride), with the offset's stride from
\* strides_from_points, followed by (stride + offset_stride) - offset_stride.
NeighborStride ==
    /\ op.kind = "none"
    /\ \E p \in LocalPoints(array), o \in NeighborOffsets :
         LET stride == StrideFromPoint(array.extent.shape, p)
             offset_stride == StridesFromPoints(array, <<o>>)[1]
             sum == StrideAdd(stride, offset_stride)
         IN  op' = [kind |-> "neighbor", p |-> p, o |-> o, stride |-> stride,
                    offset_stride |-> offset_stride, sum |-> sum,
                    back |-> StrideSub(sum, offset_stride),
                    result |-> GetStride(array, sum)]
    /\ UNCHANGED <<array, dst, octree, visited, writes>>

ArrNext ==
    \/ NeighborStride
    \/ ForEachRef
    \/ ForEachMut
    \/ GetAt
    \/ SetAt
    \/ TransformGetAt
    \/ TransformForEachRef

SpecArray == ArrInit /\ [][ArrNext]_vars

\* The procedural maps explored: the signed-distance sample of the module
\* documentation, |p| p.dot(p) - 10, and a map that tells every point of the
\* explored region apart.
Functions == { "sphere", "index" }

\* (f)(&p)
CallFunction(f, p) ==
    IF f = "sphere" THEN X(p) * X(p) + Y(p) * Y(p) + Z(p) * Z(p) - 10
    ELSE 100 + X(p) + 10 * Y(p) + 100 * Z(p)

\* ReadExtent for F: Fn(&PointN<N>) -> T: once((*extent, self))
FuncReadExtent(f, extent) == << [extent |-> extent, src |-> f] >>

\* extent.iter_points(): the points of e in row-major order, x fastest.
IterPoints(e) ==
    [i \in 1..NumPoints(e) |->
        << X(e.minimum) + ((i - 1) % X(e.shape)),
           Y(e.minimum) + (((i - 1) \div X(e.shape)) % Y(e.shape)),
           Z(e.minimum) + ((i - 1) \div (X(e.shape) * Y(e.shape))) >>]

RECURSIVE FuncWritePoints(_, _, _, _)
\* The loop of write_extent for a function source, from point i on:
\* *self.get_unchecked_mut_release(&p) = (src)(&p)
FuncWritePoints(r, f, points, i) ==
    IF i > Len(points) THEN r
    ELSE LET p == points[i]
             stride == StrideFromPoint(r.array.extent.shape,
                                       PointSub(p, r.array.extent.minimum))
             evals == Append(r.evals, p)
         IN  FuncWritePoints(
                 IF stride < Len(r.array.values)
                 THEN [r EXCEPT !.array.values[stride + 1] = CallFunction(f, p),
                                !.evals = evals]
                 ELSE [r EXCEPT !.ub = TRUE, !.evals = evals],
                 f, points, i + 1)

\* write_extent for a function source without the intersection with the
\* destination's extent.
FuncWriteExtentUnclipped(dst_array, extent, f) ==
    FuncWritePoints([array |-> dst_array, ub |-> FALSE, evals |-> <<>>],
                    f, IterPoints(extent), 1)

\* WriteExtent<N, F> for ArrayN: the destination after the write.
FuncWriteExtent(dst_array, extent, f) ==
    LET in_bounds_extent == Intersection(extent, dst_array.extent)
    IN  FuncWritePoints([array |-> dst_array, ub |-> FALSE, evals |-> <<>>],
                        f, IterPoints(in_bounds_extent), 1)

\* copy_extent from a function: its single pair is written to the destination.
FuncCopyExtent(extent, f, dst_map) ==
    LET reads == FuncReadExtent(f, extent)
        w == FuncWriteExtent(dst_map, reads[1].extent, reads[1].src)
    IN  [array |-> w.array, ub |-> w.ub, evals |-> w.evals, reads |-> reads]

-----------------------------------------------------------------------------
(* The copy specification: an extent is copied from array into dst, and    *)
(* the same copy is then repeated.                                         *)

\* Minimum corners of the copy destinations explored.
DstMinima == { <<-1, 2, 1>>, <<0, 1, 1>> }
SrcMinima == { <<-1, 2, 1>> }

\* Offsets of the copied extent's minimum from the source's minimum.
CopyOffsets == { <<0, 0, 0>>, <<-1, -1, -1>>, <<1, 0, 1>> }

CopyExtents(e) ==
    { ExtentFromMinAndShape(PointAdd(e.minimum, d), <<sx, sy, sz>>) :
        d \in CopyOffsets,
        sx \in 1..MaxExtentShape, sy \in 1..MaxExtentShape, sz \in 1..MaxExtentShape }

CopyInit ==
    /\ \E m \in SrcMinima, sh \in ArrayShapes :
         array = DistinctArray(ExtentFromMinAndShape(m, sh), 1)
    /\ \E m \in DstMinima, sh \in ArrayShapes :
         dst = DistinctArray(ExtentFromMinAndShape(m, sh), -1)
    /\ octree = NoOctree
    /\ visited = NotVisited
    /\ writes = 0
    /\ op = NoOp

\* copy_extent(&extent, &array, &mut dst); a repetition copies the same extent.
Copy ==
    /\ writes < MaxWrites
    /\ \E extent \in IF op.kind = "copy" THEN {op.extent}
                      ELSE CopyExtents(array.extent) :
         LET r == CopyExtent(extent, array, dst) IN
         /\ dst' = r.array
         /\ op' = [kind |-> "copy", extent |-> extent,
                   before |-> dst, src |-> array,
                   first |-> IF op.kind = "copy" THEN op.first ELSE r.array,
                   pairs |-> r.pairs, ub |-> r.ub]
    /\ writes' = writes + 1
    /\ UNCHANGED <<array, octree, visited>>

CopyNext == Copy

SpecCopy == CopyInit /\ [][CopyNext]_vars

-----------------------------------------------------------------------------
(* The function-copy specification: an extent is copied from a procedural  *)
(* map into dst.                                                           *)

FuncCopyInit ==
    /\ array = EmptyArray
    /\ \E m \in DstMinima, sh \in ArrayShapes :
         dst = DistinctArray(ExtentFromMinAndShape(m, sh), -1)
    /\ octree = NoOctree
    /\ visited = NotVisited
    /\ writes = 0
    /\ op = NoOp

\* copy_extent(&extent, &f, &mut dst) for a procedural map f
CopyFromFunction ==
    /\ op = NoOp
    /\ \E f \in Functions, extent \in CopyExtents(dst.extent) :
         LET r == FuncCopyExtent(extent, f, dst) IN
         /\ dst' = r.array
         /\ op' = [kind |-> "copy_fn", extent |-> extent,
                   before |-> dst, f |-> f,
                   reads |-> r.reads, evals |-> r.evals, ub |-> r.ub]
    /\ writes' = writes + 1
    /\ UNCHANGED <<array, octree, visited>>

FuncCopyNext == CopyFromFunction

SpecFuncCopy == FuncCopyInit /\ [][FuncCopyNext]_vars

-----------------------------------------------------------------------------
(* Vocabulary of the octree properties.                                    *)

\* The voxel at global point p of the source array is occupied.
Occupied(p) == ~IsEmpty(array.values[
    (Z(p) - Z(array.extent.minimum)) * Y(array.extent.shape) * X(array.extent.shape)
    + (Y(p) - Y(array.extent.minimum)) * X(array.extent.shape)
    + (X(p) - X(array.extent.minimum)) + 1])

\* The points of the cube with the given minimum and edge length.
CubePoints(minimum, edge_length) ==
    ExtentPoints(ExtentFromMinAndShape(minimum,
                     <<edge_length, edge_length, edge_length>>))

OctantPoints(o) == CubePoints(o.minimum, o.edge_length)

\* A traversal in which the visitor answered Continue to every call.
FullVisit ==
    /\ visited.done
    /\ \A i \in DOMAIN visited.visitor : visited.visitor[i] = Continue

LeafCalls == { i \in DOMAIN visited.calls : visited.calls[i].is_leaf }

\* The aligned octants of the octree's extent with edge length >= 2, each
\* named by its path from the root: a sequence of octant indices 0..7.
OctantPaths == SeqsUpTo(0..7, octree.root_level)

RECURSIVE PathCode(_)
\* The location code of a path: 1, then 3 bits per descent.
PathCode(path) ==
    IF path = <<>> THEN 1
    ELSE 8 * PathCode(SubSeq(path, 1, Len(path) - 1)) + path[Len(path)]

PathEdge(path) == 2 ^ (octree.root_level + 1 - Len(path))

RECURSIVE PathMinimum(_)
\* The minimum corner of the octant a path leads to.
PathMinimum(path) ==
    IF path = <<>> THEN octree.extent.minimum
    ELSE LET i == path[Len(path)]
             corner == <<i % 2, (i \div 2) % 2, (i \div 4) % 2>>
         IN  PointAdd(PathMinimum(SubSeq(path, 1, Len(path) - 1)),
                      PointMulScalar(corner, PathEdge(path)))

PathPoints(path) == CubePoints(PathMinimum(path), PathEdge(path))

-----------------------------------------------------------------------------
(* C1: Octree soundness.  After a full traversal (the visitor always       *)
(* answering Continue) of an octree built from an accepted array, a point  *)
(* of the array's extent is occupied in the source if and only if some     *)
(* octant reported with is_leaf = true contains it, and every reported     *)
(* octant lies inside the octree's extent.                                 *)
OctreeSoundness ==
    FullVisit =>
        /\ \A p \in ExtentPoints(array.extent) :
             Occupied(p) <=>
                \E i \in LeafCalls : p \in OctantPoints(visited.calls[i])
        /\ \A i \in DOMAIN visited.calls :
             OctantPoints(visited.calls[i]) \subseteq ExtentPoints(octree.extent)

\* A full traversal of an edge-4 octree that reported a collapsed edge-2
\* leaf, a single-voxel leaf and left an empty voxel unreported.
OctreeSoundnessWitness ==
    /\ FullVisit
    /\ X(array.extent.shape) = 4
    /\ \E i \in LeafCalls : visited.calls[i].edge_length = 2
    /\ \E i \in LeafCalls : visited.calls[i].edge_length = 1
    /\ \E p \in ExtentPoints(array.extent) : ~Occupied(p)
    /\ array.extent.minimum # <<0, 0, 0>>

(* C2: An octree of power 2 built from an array that is full except for    *)
(* one empty corner voxel is traversed as: the root with is_leaf = false,  *)
(* then the root's 8 octants; the edge-2 octant holding the empty voxel is *)
(* reported with is_leaf = false followed by its 7 occupied voxels as      *)
(* single-voxel leaves, the empty voxel is never reported, and the other   *)
(* 7 octants are reported as edge-2 leaves.                                *)
Holes == { p \in ExtentPoints(array.extent) : ~Occupied(p) }

IsCornerVoxel(p) ==
    \A i \in 1..3 : \/ p[i] = array.extent.minimum[i]
                    \/ p[i] = array.extent.minimum[i] + array.extent.shape[i] - 1

OneCornerHoleScenario ==
    /\ FullVisit
    /\ octree.root_level = 1
    /\ Cardinality(Holes) = 1
    /\ \A p \in Holes : IsCornerVoxel(p)

CallsOn(points, is_leaf) ==
    { i \in DOMAIN visited.calls :
        /\ OctantPoints(visited.calls[i]) = points
        /\ visited.calls[i].is_leaf = is_leaf }

OneCornerHoleTraversal ==
    OneCornerHoleScenario =>
        LET hole == CHOOSE p \in Holes : TRUE
            holed == CHOOSE path \in {q \in OctantPaths : Len(q) = 1} :
                        hole \in PathPoints(path)
        IN  /\ visited.calls[1] = [minimum |-> array.extent.minimum,
                                   edge_length |-> 4, is_leaf |-> FALSE]
            /\ Len(visited.calls) = 16
            /\ Cardinality(CallsOn(PathPoints(holed), FALSE)) = 1
            /\ CallsOn(PathPoints(holed), TRUE) = {}
            /\ \A p \in PathPoints(holed) \ {hole} :
                 Cardinality(CallsOn({p}, TRUE)) = 1
            /\ \A i \in DOMAIN visited.calls :
                 visited.calls[i].is_leaf => hole \notin OctantPoints(visited.calls[i])
            /\ \A path \in {q \in OctantPaths : Len(q) = 1} \ {holed} :
                 /\ Cardinality(CallsOn(PathPoints(path), TRUE)) = 1
                 /\ CallsOn(PathPoints(path), FALSE) = {}
            /\ visited.status = Continue

\* The scenario with the hole in the far corner (octant 7).
OneCornerHoleWitness ==
    /\ OneCornerHoleScenario
    /\ Holes = { PointAdd(array.extent.minimum, <<3, 3, 3>>) }

(* C3: After from_array, an octant of edge length >= 2 has an entry in the *)
(* nodes mapping if and only if it holds at least one occupied voxel and   *)
(* at least one empty voxel; no other key is stored.                       *)
NodePresence ==
    octree.built =>
        /\ \A path \in OctantPaths :
             PathCode(path) \in DOMAIN octree.nodes <=>
                /\ \E p \in PathPoints(path) : Occupied(p)
                /\ \E p \in PathPoints(path) : ~Occupied(p)
        /\ DOMAIN octree.nodes \subseteq { PathCode(path) : path \in OctantPaths }

\* An octree with a stored inner node next to a full and an empty sibling.
NodePresenceWitness ==
    /\ octree.built
    /\ octree.root_level = 1
    /\ \E path \in OctantPaths :
         Len(path) = 1 /\ PathCode(path) \in DOMAIN octree.nodes
    /\ \E path \in OctantPaths :
         Len(path) = 1 /\ \A p \in PathPoints(path) : Occupied(p)
    /\ \E path \in OctantPaths :
         Len(path) = 1 /\ \A p \in PathPoints(path) : ~Occupied(p)

(* C4: Octree compactness.  An octree built from a fully occupied cube has *)
(* root_exists = true and an empty nodes mapping, and a visit makes        *)
(* exactly one visitor call: the whole-extent octant with is_leaf = true.  *)
FullyOccupied == \A p \in ExtentPoints(array.extent) : Occupied(p)

OctreeCompactness ==
    (octree.built /\ FullyOccupied) =>
        /\ octree.root_exists
        /\ DOMAIN octree.nodes = {}
        /\ visited.done =>
             visited.calls = << [minimum |-> array.extent.minimum,
                                 edge_length |-> X(array.extent.shape),
                                 is_leaf |-> TRUE] >>

\* A visited octree of the largest power built from a full array.
OctreeCompactnessWitness ==
    /\ octree.built
    /\ FullyOccupied
    /\ visited.done
    /\ X(array.extent.shape) = 2 ^ MaxPower

-----------------------------------------------------------------------------
(* Vocabulary of the array properties.                                     *)

\* Point p lies in the extent of array a.
InArray(a, p) ==
    \A i \in 1..3 : /\ a.extent.minimum[i] <= p[i]
                    /\ p[i] < a.extent.minimum[i] + a.extent.shape[i]

\* The row-major offset of global point p in array a:
\* (p - m).z * s.y * s.x + (p - m).y * s.x + (p - m).x.
RowMajor(a, p) ==
    (Z(p) - Z(a.extent.minimum)) * Y(a.extent.shape) * X(a.extent.shape)
    + (Y(p) - Y(a.extent.minimum)) * X(a.extent.shape)
    + (X(p) - X(a.extent.minimum))

\* The element of a at the in-extent global point p.
ElementAt(a, p) == a.values[RowMajor(a, p) + 1]

ArrayPoints(a) == ExtentPoints(a.extent)

\* The global point an accessor coordinate names, as a set: empty when the
\* coordinate lies outside the array.
Addressed(a, kind, at) ==
    CASE kind = "Stride" -> { p \in ArrayPoints(a) : RowMajor(a, p) = at[1] }
      [] kind = "Local"  -> { p \in ArrayPoints(a) : PointSub(p, a.extent.minimum) = at }
      [] kind = "Point"  -> { p \in ArrayPoints(a) : p = at }

(* C5: for_each_ref over any requested extent e calls back exactly once    *)
(* for each point of e that lies in the array and for no other point; the  *)
(* stride passed with p is the row-major stride of p, so the value read by *)
(* stride equals the value read by global point (and the value passed).    *)
ForEachVisitsIntersectionOnce ==
    op.kind = "for_each_ref" =>
        LET target == { p \in ExtentPoints(op.extent) : InArray(array, p) }
        IN  /\ { op.calls[i].point : i \in DOMAIN op.calls } = target
            /\ Len(op.calls) = Cardinality(target)
            /\ \A i \in DOMAIN op.calls :
                 /\ op.calls[i].stride = RowMajor(array, op.calls[i].point)
                 /\ GetStride(array, op.calls[i].stride).ok
                 /\ GetStride(array, op.calls[i].stride) =
                        GetPoint(array, op.calls[i].point)
                 /\ op.calls[i].value = ElementAt(array, op.calls[i].point)

\* A traversal of an extent that sticks out of the array on both sides of
\* some axis, over an array with unequal x and y edges and several rows.
ForEachWitness ==
    /\ op.kind = "for_each_ref"
    /\ Len(op.calls) >= 4
    /\ Len(op.calls) < NumPoints(op.extent)
    /\ X(array.extent.shape) # Y(array.extent.shape)
    /\ op.extent.minimum # array.extent.minimum
    /\ \E i \in DOMAIN op.calls : Z(op.calls[i].point) # Z(op.calls[1].point)

(* C6: every checked accessor (by Stride, Local point or global point)     *)
(* fails fatally when the coordinate lies outside the array's extent.      *)
CheckedAccessPanicsOutOfBounds ==
    (op.kind \in {"get", "set"} /\ Addressed(array, op.coord, op.at) = {}) =>
        ~op.result.ok

(* C7: for every point p of the array the three coordinate kinds address   *)
(* the same element: global point p, Local(p - m) and the row-major Stride *)
(* read the same cell, a read returns that cell, and a write through any   *)
(* kind is observed through all three and changes no other cell.           *)
CoordinateKindsAgree ==
    /\ \A p \in ArrayPoints(array) :
         /\ GetPoint(array, p) = Ok(ElementAt(array, p))
         /\ GetLocal(array, PointSub(p, array.extent.minimum)) = Ok(ElementAt(array, p))
         /\ GetStride(array, RowMajor(array, p)) = Ok(ElementAt(array, p))
    /\ op.kind = "get" =>
         \A q \in Addressed(array, op.coord, op.at) :
            op.result = Ok(ElementAt(array, q))
    /\ op.kind = "set" =>
         \A q \in Addressed(array, op.coord, op.at) :
            /\ op.result.ok
            /\ GetPoint(array, q) = Ok(Fresh)
            /\ GetLocal(array, PointSub(q, array.extent.minimum)) = Ok(Fresh)
            /\ GetStride(array, RowMajor(array, q)) = Ok(Fresh)
            /\ \A p \in ArrayPoints(array) \ {q} :
                 GetPoint(array, p) = GetPoint(op.before, p)

\* A write by Local point to an inner cell of an array with unequal edges.
CoordinateKindsWitness ==
    /\ op.kind = "set"
    /\ op.coord = "Local"
    /\ op.result.ok
    /\ array.extent.shape = <<MaxShape, 1, MaxShape>>
    /\ op.at = <<1, 0, 1>>
    /\ array.extent.minimum # <<0, 0, 0>>

-----------------------------------------------------------------------------
(* Copying an extent between dense arrays.                                 *)

\* The points the copy of op.extent transfers: op.extent /\ src /\ dst.
CopyRegion ==
    { p \in ExtentPoints(op.extent) : InArray(array, p) /\ InArray(dst, p) }

(* C8: after copy_extent(e, src, dst) the destination holds the source's   *)
(* value at every point of e /\ src.extent /\ dst.extent, whatever the     *)
(* minima and shapes of the two arrays, and no access of the copy falls    *)
(* outside either value vector.                                            *)
CopyTransfersValues ==
    op.kind = "copy" =>
        /\ ~op.ub
        /\ \A p \in CopyRegion : ElementAt(dst, p) = ElementAt(array, p)

CopyTransfersValuesWitness ==
    /\ op.kind = "copy"
    /\ writes = 1
    /\ array.extent.minimum # dst.extent.minimum
    /\ array.extent.shape # dst.extent.shape
    /\ Cardinality(CopyRegion) >= 2
    /\ Cardinality(CopyRegion) < NumPoints(op.extent)
    /\ \E p \in CopyRegion : RowMajor(dst, p) # RowMajor(array, p)
    /\ \A p \in CopyRegion : ElementAt(op.before, p) # ElementAt(dst, p)

(* C9: copy_extent(e, src, dst) leaves every element of dst at a point     *)
(* outside e /\ src.extent /\ dst.extent as it was, leaves dst's extent    *)
(* (and the length of its values) as it was, and leaves src as it was.     *)
CopyFrame ==
    op.kind = "copy" =>
        /\ dst.extent = op.before.extent
        /\ Len(dst.values) = Len(op.before.values)
        /\ \A p \in ArrayPoints(dst) \ CopyRegion :
               ElementAt(dst, p) = ElementAt(op.before, p)
        /\ array = op.src

CopyFrameWitness ==
    /\ op.kind = "copy"
    /\ writes = 1
    /\ dst # op.before
    /\ \E p \in ArrayPoints(dst) \ CopyRegion : p \in ExtentPoints(op.extent)
    /\ \E p \in ArrayPoints(dst) \ CopyRegion : p \notin ExtentPoints(op.extent)
    /\ \E p \in ArrayPoints(array) : p \in ExtentPoints(op.extent) /\ ~InArray(dst, p)

(* C10: copy idempotence: copying the same extent from src into a dst of   *)
(* equal shape a second time leaves dst exactly as the first copy left it. *)
CopyIdempotent ==
    (op.kind = "copy" /\ writes >= 2 /\ array.extent.shape = dst.extent.shape) =>
        dst = op.first

CopyIdempotentWitness ==
    /\ op.kind = "copy"
    /\ writes = 2
    /\ array.extent.shape = dst.extent.shape
    /\ array.extent.minimum # dst.extent.minimum
    /\ CopyRegion # {}
    /\ op.first # DistinctArray(dst.extent, -1)
    /\ dst = op.first

-----------------------------------------------------------------------------
(* Compression: the values are reinterpreted as bytes, framed by the lz4   *)
(* encoder, and read back into a buffer of num_points elements.            *)

\* core::mem::size_of::<T>() of the element type explored (a 16-bit integer).
SizeOfT == 2

\* The native-endian bytes of one element (two's complement, low byte first).
ValueBytes(v) ==
    LET u == v % (256 ^ SizeOfT)
    IN  [k \in 1..SizeOfT |-> (u \div (256 ^ (k - 1))) % 256]

\* One element read back from its bytes as an unsigned number.
BytesValueUnsigned(bs) ==
    LET Sum[k \in 0..SizeOfT] ==
            IF k = 0 THEN 0 ELSE Sum[k - 1] + bs[k] * (256 ^ (k - 1))
    IN  Sum[SizeOfT]

\* One element read back from its bytes.
BytesValue(bs) ==
    LET Sum[k \in 0..SizeOfT] ==
            IF k = 0 THEN 0 ELSE Sum[k - 1] + bs[k] * (256 ^ (k - 1))
        u == Sum[SizeOfT]
    IN  IF u >= (256 ^ SizeOfT) \div 2 THEN u - 256 ^ SizeOfT ELSE u

\* slice::from_raw_parts(values.as_ptr() as *const u8, len * size_of::<T>())
ValuesAsBytes(values) ==
    [i \in 1..(Len(values) * SizeOfT) |->
        ValueBytes(values[((i - 1) \div SizeOfT) + 1])[((i - 1) % SizeOfT) + 1]]

\* The Vec<T> of n elements whose memory holds the given n * size_of::<T>() bytes.
BytesAsValues(bytes, n) ==
    [i \in 1..n |-> BytesValue(SubSeq(bytes, (i - 1) * SizeOfT + 1, i * SizeOfT))]

\* The lz4 frame, an external codec, is modelled as a magic number, a list of
\* (run length, byte) blocks and an end mark; a higher level allows longer runs.
Lz4Magic == 4
Lz4EndMark == 0
Lz4MaxRun(level) == level + 1

RECURSIVE Lz4RunAt(_, _, _)
\* The length of the run of equal bytes starting at index i, at most max.
Lz4RunAt(bytes, i, max) ==
    IF max > 1 /\ i < Len(bytes) /\ bytes[i + 1] = bytes[i]
    THEN 1 + Lz4RunAt(bytes, i + 1, max - 1)
    ELSE 1

RECURSIVE Lz4Blocks(_, _, _)
Lz4Blocks(bytes, i, level) ==
    IF i > Len(bytes) THEN <<>>
    ELSE LET n == Lz4RunAt(bytes, i, Lz4MaxRun(level))
         IN  <<n, bytes[i]>> \o Lz4Blocks(bytes, i + n, level)

\* lz4::EncoderBuilder::new().level(level).build(..), io::copy, finish()
Lz4Encode(bytes, level) ==
    <<Lz4Magic>> \o Lz4Blocks(bytes, 1, level) \o <<Lz4EndMark>>

RECURSIVE Lz4DecodeBlocks(_, _, _)
Lz4DecodeBlocks(blob, pos, acc) ==
    IF pos > Len(blob) THEN [ok |-> FALSE, bytes |-> acc]
    ELSE IF blob[pos] = Lz4EndMark THEN [ok |-> TRUE, bytes |-> acc]
    ELSE IF pos + 1 > Len(blob) THEN [ok |-> FALSE, bytes |-> acc]
    ELSE Lz4DecodeBlocks(blob, pos + 2,
                         acc \o [k \in 1..blob[pos] |-> blob[pos + 1]])

\* Reading an lz4::Decoder to its end: the decoded bytes, or an error for a
\* blob that is not a complete frame.
Lz4Decode(blob) ==
    IF Len(blob) = 0 \/ blob[1] # Lz4Magic THEN [ok |-> FALSE, bytes |-> <<>>]
    ELSE Lz4DecodeBlocks(blob, 2, <<>>)

\* Compressible<FastLz4> for ArrayN::compress
Compress(a, level) ==
    [extent |-> a.extent,
     compressed_bytes |-> Lz4Encode(ValuesAsBytes(a.values), level)]

\* Decompressible<FastLz4> for FastLz4CompressedArrayN::decompress.  The
\* buffer has num_points elements; io::copy fails when the frame is broken or
\* holds more bytes than the buffer, and bytes the frame does not supply keep
\* the buffer's uninitialized content `uninit`.
Decompress(c, uninit) ==
    LET num_points == NumPoints(c.extent)
        capacity == num_points * SizeOfT
        decoded == Lz4Decode(c.compressed_bytes)
    IN  IF ~decoded.ok \/ Len(decoded.bytes) > capacity THEN Panic
        ELSE LET memory == [i \in 1..capacity |->
                               IF i <= Len(decoded.bytes) THEN decoded.bytes[i]
                               ELSE uninit]
             IN  ArrayNew(c.extent, BytesAsValues(memory, num_points))

\* Compression levels explored.
MaxLevel == 2

\* The element values of the arrays compressed: value i is
\* base + step * ((i - 1) \div run), so runs, negative and multi-byte values occur.
CodecArrays(extent) ==
    { ArrayNew(extent, [i \in 1..NumPoints(extent) |->
                           base + step * ((i - 1) \div run)]).value :
        base \in {-1, 0, 300}, step \in {0, 1, 255}, run \in {1, 2} }

\* Bytes an uninitialized buffer may hold.
UninitBytes == {0, 255}

CodecInit ==
    /\ \E m \in ArrayMinima, sh \in ArrayShapes :
         array \in CodecArrays(ExtentFromMinAndShape(m, sh))
    /\ dst = EmptyArray
    /\ octree = NoOctree
    /\ visited = NotVisited
    /\ writes = 0
    /\ op = NoOp

\* array.compress(FastLz4 { level })
CompressArray ==
    /\ op.kind = "none"
    /\ \E level \in 0..MaxLevel :
         op' = [kind |-> "compress", level |-> level,
                compressed |-> Compress(array, level)]
    /\ UNCHANGED <<array, dst, octree, visited, writes>>

\* compressed.decompress()
DecompressArray ==
    /\ op.kind = "compress"
    /\ \E uninit \in UninitBytes :
         op' = [kind |-> "decompress", level |-> op.level,
                compressed |-> op.compressed,
                result |-> Decompress(op.compressed, uninit)]
    /\ UNCHANGED <<array, dst, octree, visited, writes>>

CodecNext ==
    \/ CompressArray
    \/ DecompressArray

SpecCodec == CodecInit /\ [][CodecNext]_vars

(* C11: compression round trip: for every array and every level,           *)
(* a.compress(FastLz4{level}).decompress() returns an array equal to a     *)
(* (same extent, same values), and the compressed array records a's extent.*)
CompressionRoundTrip ==
    /\ op.kind \in {"compress", "decompress"} => op.compressed.extent = array.extent
    /\ op.kind = "decompress" => op.result = Ok(array)

CompressionRoundTripWitness ==
    /\ op.kind = "decompress"
    /\ op.level > 0
    /\ op.result.ok
    /\ Len(array.values) >= 4
    /\ \E i \in DOMAIN array.values : array.values[i] < 0
    /\ \E i \in DOMAIN array.values : array.values[i] > 255
    /\ Len(op.compressed.compressed_bytes) < Len(Compress(array, 0).compressed_bytes)
    /\ array.extent.minimum # <<0, 0, 0>>

-----------------------------------------------------------------------------
(* The transform view.                                                     *)

(* C12: transform-view transparency: for every transform f and coordinate  *)
(* c of any kind, the view's get(c) is f(m.get(c)) (and fails exactly when *)
(* the delegate's accessor fails), and for_each_ref over the view calls    *)
(* back on the same coordinates in the same order as for_each_ref over the *)
(* delegate, passing f(value).                                             *)
TransformViewTransparent ==
    /\ op.kind = "view_get" =>
         /\ op.result.ok = CheckedGet(array, op.coord, op.at).ok
         /\ \A q \in Addressed(array, op.coord, op.at) :
              op.result = Ok(Apply(op.f, ElementAt(array, q)))
    /\ op.kind = "view_for_each_ref" =>
         LET delegate == ForEachPointAndStride(array.extent, op.extent)
         IN  /\ Len(op.calls) = Len(delegate)
             /\ \A i \in DOMAIN op.calls :
                  /\ op.calls[i].point = delegate[i].point
                  /\ op.calls[i].stride = delegate[i].stride
                  /\ op.calls[i].value =
                       Apply(op.f, ElementAt(array, delegate[i].point))

TransformViewWitness ==
    /\ op.kind = "view_get"
    /\ op.coord = "Local"
    /\ op.result.ok
    /\ op.f.scale < 0
    /\ op.at = <<1, 0, 1>>
    /\ array.extent.shape = <<MaxShape, 1, MaxShape>>
    /\ op.result.value # ElementAt(array, PointAdd(op.at, array.extent.minimum))

-----------------------------------------------------------------------------
(* Bulk mutation and traversal order.                                      *)

\* The points for_each over op.extent is to reach: op.extent /\ array.extent.
MutatedRegion == { p \in ExtentPoints(op.extent) : InArray(array, p) }

(* C13: for_each_mut(e, f) applies f once to exactly the elements at the   *)
(* points of e /\ array.extent and leaves every other element (and the     *)
(* extent) as it was; when f assigns a value the array did not hold, a     *)
(* traversal afterwards finds that value at exactly |e /\ array.extent|    *)
(* points and other values at the remaining points.                        *)
ForEachMutFrame ==
    op.kind = "for_each_mut" =>
        /\ ~op.ub
        /\ array.extent = op.before.extent
        /\ Len(array.values) = Len(op.before.values)
        /\ \A p \in ArrayPoints(array) :
             ElementAt(array, p) =
                IF p \in MutatedRegion
                THEN Apply(op.f, ElementAt(op.before, p))
                ELSE ElementAt(op.before, p)
        /\ op.f.scale = 0 =>
             LET seen == ForEachRefCalls(array, array.extent, Fresh)
                 hits == { i \in DOMAIN seen : seen[i].value = op.f.offset }
             IN  /\ Cardinality(hits) = Cardinality(MutatedRegion)
                 /\ Len(seen) - Cardinality(hits) =
                      NumPoints(array.extent) - Cardinality(MutatedRegion)

ForEachMutWitness ==
    /\ op.kind = "for_each_mut"
    /\ op.f.scale = 0
    /\ Cardinality(MutatedRegion) >= 2
    /\ Cardinality(MutatedRegion) < NumPoints(array.extent) - 1
    /\ Cardinality(MutatedRegion) < NumPoints(op.extent)
    /\ array.extent.minimum # <<0, 0, 0>>
    /\ array # op.before

\* Point p comes before point q in row-major nesting: z outermost, x fastest.
RowMajorBefore(p, q) ==
    \/ Z(p) < Z(q)
    \/ Z(p) = Z(q) /\ Y(p) < Y(q)
    \/ Z(p) = Z(q) /\ Y(p) = Y(q) /\ X(p) < X(q)

(* C14: bulk traversal of an Array3 calls back on the points of the        *)
(* clipped extent in row-major nesting (z outermost, then y, x fastest),   *)
(* so the strides passed to the callback are strictly increasing.          *)
TraversalIsRowMajor ==
    op.kind = "for_each_ref" =>
        \A i, j \in DOMAIN op.calls :
            i < j => /\ RowMajorBefore(op.calls[i].point, op.calls[j].point)
                     /\ op.calls[i].stride < op.calls[j].stride

TraversalIsRowMajorWitness ==
    /\ op.kind = "for_each_ref"
    /\ Len(op.calls) >= 8
    /\ Len(op.calls) < NumPoints(op.extent)
    /\ \E i \in DOMAIN op.calls : X(op.calls[i].point) # X(op.calls[1].point)
    /\ \E i \in DOMAIN op.calls : Y(op.calls[i].point) # Y(op.calls[1].point)
    /\ \E i \in DOMAIN op.calls : Z(op.calls[i].point) # Z(op.calls[1].point)
    /\ array.extent.minimum # <<0, 0, 0>>

(* C15: stride arithmetic is modular and agrees with point arithmetic: for *)
(* every in-bounds local point p and offset o with p + o in bounds,        *)
(* stride_from_point(s, p) + stride_from_point(s, o) (wrapping) is         *)
(* stride_from_point(s, p + o) and reads the element at p + o; and         *)
(* (a + b) - b = a for every stride a and offset stride b.                 *)
StrideArithmeticIsModular ==
    op.kind = "neighbor" =>
        LET q == PointAdd(PointAdd(op.p, op.o), array.extent.minimum)
        IN  /\ op.back = op.stride
            /\ InArray(array, q) =>
                 /\ op.sum = StrideFromPoint(array.extent.shape, PointAdd(op.p, op.o))
                 /\ op.sum = RowMajor(array, q)
                 /\ op.result = Ok(ElementAt(array, q))

\* A step back along x and z from an inner point: the offset's stride wraps.
StrideArithmeticWitness ==
    /\ op.kind = "neighbor"
    /\ op.o = <<-1, 0, -1>>
    /\ op.p = <<1, 0, 1>>
    /\ op.offset_stride > op.stride
    /\ op.result.ok
    /\ array.extent.shape = <<MaxShape, 1, MaxShape>>

-----------------------------------------------------------------------------
(* The life of a dense array: constructors, then writes of every kind.     *)

\* ArrayN::maybe_uninit: num_points elements of uninitialized memory.
MaybeUninit(extent, uninit) ==
    ArrayNew(extent, [i \in 1..NumPoints(extent) |-> uninit])

\* ArrayN<N, MaybeUninit<T>>::assume_init
AssumeInit(a) == ArrayNew(a.extent, a.values)

\* The filler of the module documentation: |p| if p.x() % 2 == 0 { 1 } else { 0 }
Filler(p) == IF X(p) % 2 = 0 THEN 1 ELSE 0

RECURSIVE FillPoints(_, _)
\* for p in extent.iter_points() { array.get_mut(&p).write(filler(&p)) }
FillPoints(r, points) ==
    IF ~r.ok \/ points = {} THEN r
    ELSE LET p == CHOOSE q \in points : TRUE
         IN  FillPoints(SetPoint(r.value, p, Filler(p)), points \ {p})

\* ArrayN::fill_with
FillWith(extent, uninit) ==
    LET filled == FillPoints(MaybeUninit(extent, uninit), ExtentPoints(extent))
    IN  IF filled.ok THEN AssumeInit(filled.value) ELSE Panic

\* The extents arrays are constructed over, one of them without points.
LifeExtents ==
    { ExtentFromMinAndShape(<<-1, 2, 1>>, sh) :
        sh \in { <<1, 1, 1>>, <<MaxShape, 1, MaxShape>>, <<1, MaxShape, 1>>, <<0, 1, 1>> } }

\* The value vectors handed to ArrayN::new for an extent: one value short,
\* exact, and one value too many.
LifeValues(extent) ==
    { [i \in 1..n |-> i] :
        n \in { k \in (NumPoints(extent) - 1)..(NumPoints(extent) + 1) : k >= 0 } }

\* The extents bulk operations are asked for.
LifeRequests ==
    { ExtentFromMinAndShape(m, <<MaxShape, MaxShape, MaxShape>>) :
        m \in { <<-1, 2, 1>>, <<0, 2, 2>>, <<-2, 1, 0>> } }

\* The coordinates written through an accessor, in and out of bounds.
LifeCoords(kind) ==
    CASE kind = "Stride" -> { <<0>>, <<MaxShape * MaxShape>> }
      [] kind = "Local"  -> { <<0, 0, 0>>, <<1, 0, 1>> }
      [] kind = "Point"  -> { <<-1, 2, 1>>, <<0, 2, 2>> }

LifeInit ==
    /\ \E extent \in LifeExtents : array = ArrayFill(extent, 1).value
    /\ dst = DistinctArray(ExtentFromMinAndShape(<<0, 2, 1>>, <<MaxShape, 1, 1>>), 1)
    /\ octree = NoOctree
    /\ visited = NotVisited
    /\ writes = 0
    /\ op = NoOp

\* The array after a call that returns r: a failed call leaves it as it was.
Bound(r) == IF r.ok THEN r.value ELSE array

\* The record of a call of the given kind that returned r.
Called(kind, r) == [kind |-> kind, before |-> array, result |-> r]

\* array = ArrayN::new(extent, values)
LifeNew ==
    /\ writes < MaxWrites
    /\ \E extent \in LifeExtents : \E values \in LifeValues(extent) :
         LET r == ArrayNew(extent, values) IN
         /\ array' = Bound(r)
         /\ op' = [kind |-> "new", before |-> array, result |-> r,
                   extent |-> extent, values |-> values]
    /\ writes' = writes + 1
    /\ UNCHANGED <<dst, octree, visited>>

\* array = ArrayN::fill(extent, Fresh)
LifeFill ==
    /\ writes < MaxWrites
    /\ \E extent \in LifeExtents :
         LET r == ArrayFill(extent, Fresh) IN
         /\ array' = Bound(r)
         /\ op' = Called("fill", r)
    /\ writes' = writes + 1
    /\ UNCHANGED <<dst, octree, visited>>

\* array = ArrayN::fill_with(extent, filler)
LifeFillWith ==
    /\ writes < MaxWrites
    /\ \E extent \in LifeExtents, uninit \in UndefinedReads :
         LET r == FillWith(extent, uninit) IN
         /\ array' = Bound(r)
         /\ op' = Called("fill_with", r)
    /\ writes' = writes + 1
    /\ UNCHANGED <<dst, octree, visited>>

\* array = ArrayN::maybe_uninit(extent).assume_init()
LifeAssumeInit ==
    /\ writes < MaxWrites
    /\ \E extent \in LifeExtents, uninit \in UndefinedReads :
         LET m == MaybeUninit(extent, uninit)
             r == IF m.ok THEN AssumeInit(m.value) ELSE Panic
         IN  /\ array' = Bound(r)
             /\ op' = Called("assume_init", r)
    /\ writes' = writes + 1
    /\ UNCHANGED <<dst, octree, visited>>

\* *array.get_mut(coordinate) = Fresh
LifeSetAt ==
    /\ writes < MaxWrites
    /\ \E kind \in CoordinateKinds : \E at \in LifeCoords(kind) :
         LET r == CheckedSet(array, kind, at, Fresh) IN
         /\ array' = Bound(r)
         /\ op' = Called("set", r)
    /\ writes' = writes + 1
    /\ UNCHANGED <<dst, octree, visited>>

\* array.for_each_mut(&extent, |_, value| *value = -2 * *value)
LifeForEachMut ==
    /\ writes < MaxWrites
    /\ \E extent \in LifeRequests :
         LET r == Ok(ForEachMutResult(array, extent, [scale |-> -2, offset |-> 0]).array)
         IN  /\ array' = Bound(r)
             /\ op' = Called("for_each_mut", r)
    /\ writes' = writes + 1
    /\ UNCHANGED <<dst, octree, visited>>

\* array.write_extent(&extent, source) with the pair read from dst
LifeWriteExtent ==
    /\ writes < MaxWrites
    /\ \E extent \in LifeRequests :
         LET read == ReadExtent(dst, extent)[1]
             r == Ok(WriteExtent(array, read.extent, read.src).array)
         IN  /\ array' = Bound(r)
             /\ op' = Called("write_extent", r)
    /\ writes' = writes + 1
    /\ UNCHANGED <<dst, octree, visited>>

\* array = array.compress(FastLz4 { level }).decompress()
LifeDecompress ==
    /\ writes < MaxWrites
    /\ \E level \in {0, MaxLevel}, uninit \in UninitBytes :
         LET r == Decompress(Compress(array, level), uninit) IN
         /\ array' = Bound(r)
         /\ op' = Called("decompress", r)
    /\ writes' = writes + 1
    /\ UNCHANGED <<dst, octree, visited>>

LifeNext ==
    \/ LifeNew
    \/ LifeFill
    \/ LifeFillWith
    \/ LifeAssumeInit
    \/ LifeSetAt
    \/ LifeForEachMut
    \/ LifeWriteExtent
    \/ LifeDecompress

SpecLife == LifeInit /\ [][LifeNext]_vars

(* C16: every dense array that exists has values.len() equal to            *)
(* extent.num_points(): it holds for the result of new, fill, fill_with,   *)
(* assume_init and decompress, and after every sequence of accessor        *)
(* writes, for_each_mut and write_extent calls.                            *)
LengthMatchesExtent ==
    /\ Len(array.values) = NumPoints(array.extent)
    /\ Len(dst.values) = NumPoints(dst.extent)
    /\ (op.kind # "none" /\ op.result.ok) =>
         Len(op.result.value.values) = NumPoints(op.result.value.extent)

\* A decompressed array, part of which for_each_mut had written before.
LengthMatchesExtentWitness ==
    /\ op.kind = "decompress"
    /\ op.result.ok
    /\ writes >= 2
    /\ Len(array.values) >= 4
    /\ \E i \in DOMAIN array.values : array.values[i] < 0
    /\ \E i \in DOMAIN array.values : array.values[i] > 0

(* C17: ArrayN::new(extent, values) fails fatally, returning no array,     *)
(* whenever values.len() differs from extent.num_points(); otherwise it    *)
(* returns an array with exactly that extent and those values.             *)
NewAssertsLength ==
    op.kind = "new" =>
        /\ op.result.ok <=> (Len(op.values) = NumPoints(op.extent))
        /\ op.result.ok =>
             /\ op.result.value.extent = op.extent
             /\ op.result.value.values = op.values
             /\ array = op.result.value
        /\ ~op.result.ok => array = op.before

\* One value too many for an extent of several points: no array is returned.
NewAssertsLengthWitness ==
    /\ op.kind = "new"
    /\ ~op.result.ok
    /\ NumPoints(op.extent) >= 4
    /\ Len(op.values) = NumPoints(op.extent) + 1
    /\ array = op.before

-----------------------------------------------------------------------------
(* Octree construction and traversal control.                              *)

\* from_array's documented precondition on the call recorded in op.
FromArrayAccepted ==
    /\ op.power \in 1..MaxAcceptedPower
    /\ array.extent.shape = <<2 ^ op.power, 2 ^ op.power, 2 ^ op.power>>

(* C18: Octree::from_array(power, array) fails fatally, producing no       *)
(* octree, whenever power is 0 or greater than 6 or the array's shape is   *)
(* not the cube of edge 2^power; every accepted input yields an octree     *)
(* with edge_length() = 2^power and the array's extent.                    *)
FromArrayAsserts ==
    op.kind = "from_array" =>
        /\ ~FromArrayAccepted => octree = PanickedOctree
        /\ FromArrayAccepted =>
             /\ octree.built
             /\ EdgeLength(octree) = 2 ^ op.power
             /\ octree.extent = array.extent

\* The largest array explored, with a hole, built with its own power.
FromArrayAssertsWitness ==
    /\ op.kind = "from_array"
    /\ op.power = MaxPower
    /\ FromArrayAccepted
    /\ octree.built
    /\ writes >= 1
    /\ \E p \in ExtentPoints(array.extent) : ~Occupied(p)
    /\ \E p \in ExtentPoints(array.extent) : Occupied(p)


\* The answer the recorded visitor gave to its k-th call.
Answer(k) ==
    IF k <= Len(visited.visitor) THEN visited.visitor[k] ELSE Continue

(* C19: once the visitor returns ExitEarly for any octant, leaf or not and *)
(* at any depth, visit makes no further visitor call and itself returns    *)
(* ExitEarly.                                                              *)
ExitEarlyEndsVisit ==
    visited.done =>
        \A k \in 1..Len(visited.calls) :
            Answer(k) = ExitEarly =>
                /\ Len(visited.calls) = k
                /\ visited.status = ExitEarly

\* ExitEarly answered at a leaf below the root while octants remain that an
\* all-Continue visitor would still be shown.
ExitEarlyEndsVisitWitness ==
    /\ visited.done
    /\ Len(visited.calls) = MaxDeviation
    /\ Answer(MaxDeviation) = ExitEarly
    /\ visited.calls[MaxDeviation].is_leaf
    /\ ~visited.calls[1].is_leaf
    /\ visited.status = ExitEarly
    /\ Len(Visit(octree, <<>>).calls) > MaxDeviation

\* The source array holds at least one non-empty voxel.
SomeOccupied == \E p \in ExtentPoints(array.extent) : Occupied(p)

(* C20: an octree built from an array with no non-empty voxel has          *)
(* root_exists false (is_empty() true) and visit on it makes no visitor    *)
(* call and returns Continue; is_empty() is false whenever the source has  *)
(* a non-empty voxel.                                                      *)
EmptyOctree ==
    octree.built =>
        /\ ~SomeOccupied =>
             /\ ~octree.root_exists
             /\ OctreeIsEmpty(octree)
             /\ visited.done =>
                  /\ visited.calls = <<>>
                  /\ visited.status = Continue
        /\ SomeOccupied => ~OctreeIsEmpty(octree)

\* An array emptied by writes, built and visited by a visitor that would
\* have answered ExitEarly to its first call.
EmptyOctreeWitness ==
    /\ octree.built
    /\ ~SomeOccupied
    /\ writes >= 1
    /\ visited.done
    /\ Len(visited.visitor) = 1
    /\ visited.visitor[1] = ExitEarly
    /\ visited.calls = <<>>
    /\ visited.status = Continue

\* The recorded visitor with every Stop answer replaced by Continue.
WithoutStop ==
    [k \in DOMAIN visited.visitor |->
        IF visited.visitor[k] = Stop THEN Continue ELSE visited.visitor[k]]

\* Call c reports an octant strictly inside the octant of call o.
Descendant(c, o) ==
    /\ c.edge_length < o.edge_length
    /\ c.minimum \in OctantPoints(o)

\* The calls of s that are not descendants of o, in order.
WithoutDescendants(s, o) == SelectSeq(s, LAMBDA c : ~Descendant(c, o))

(* C21 (as stated): Stop and Continue are equivalent in octree traversal:  *)
(* replacing any Stop return with Continue does not change the sequence of *)
(* octants visited.                                                        *)
StopEquivalentToContinue ==
    visited.done => Visit(octree, WithoutStop).calls = visited.calls

(* C21 (amended): Stop and Continue are equivalent when returned for a     *)
(* leaf octant: replacing a Stop returned for a leaf with Continue does    *)
(* not change the sequence of octants visited; a Stop returned for a       *)
(* non-leaf octant does change it.                                         *)
StopAtLeafEquivalentToContinue ==
    visited.done =>
        \A k \in 1..Len(visited.calls) :
            Answer(k) = Stop =>
                IF visited.calls[k].is_leaf
                THEN Visit(octree, WithoutStop).calls = visited.calls
                ELSE Visit(octree, WithoutStop).calls # visited.calls

\* Stop answered at a leaf below the root that has later siblings.
StopAtLeafWitness ==
    /\ visited.done
    /\ \E k \in 2..Len(visited.calls) :
         /\ Answer(k) = Stop
         /\ visited.calls[k].is_leaf
         /\ k < Len(visited.calls)
    /\ Visit(octree, WithoutStop).calls = visited.calls

(* C22: a Stop returned for a non-leaf octant keeps every descendant of    *)
(* that octant out of the traversal while the remaining siblings of it and *)
(* of its ancestors are still visited; a Stop below the root is not        *)
(* propagated: visit returns Continue unless the root call returned Stop   *)
(* or some call returned ExitEarly.                                        *)
StopPrunesBranch ==
    visited.done =>
        /\ \A k \in 1..Len(visited.calls) :
             (Answer(k) = Stop /\ ~visited.calls[k].is_leaf) =>
                /\ \A j \in 1..Len(visited.calls) :
                     ~Descendant(visited.calls[j], visited.calls[k])
                /\ visited.calls =
                     WithoutDescendants(Visit(octree, WithoutStop).calls,
                                        visited.calls[k])
        /\ visited.status =
             IF \E k \in 1..Len(visited.calls) : Answer(k) = ExitEarly
             THEN ExitEarly
             ELSE IF visited.calls # <<>> /\ Answer(1) = Stop
             THEN Stop
             ELSE Continue

\* Stop answered at an inner octant below the root: its descendants are
\* skipped, a later sibling is visited and visit returns Continue.
StopPrunesBranchWitness ==
    /\ visited.done
    /\ \E k \in 2..Len(visited.calls) :
         /\ Answer(k) = Stop
         /\ ~visited.calls[k].is_leaf
         /\ k < Len(visited.calls)
         /\ Len(Visit(octree, WithoutStop).calls) > Len(visited.calls)
    /\ visited.status = Continue

\* The path from the root to the octant of call c, an octant of edge >= 2.
PathOf(c) ==
    CHOOSE path \in OctantPaths :
        PathMinimum(path) = c.minimum /\ PathEdge(path) = c.edge_length

\* Call c reports an octant of edge >= 2 that has an entry in the mapping.
Stored(c) ==
    /\ c.edge_length >= 2
    /\ PathCode(PathOf(c)) \in DOMAIN octree.nodes

\* The minima of the calls on the direct child octants of call o, in the
\* order of the calls.
ChildCalls(o) ==
    LET s == SelectSeq(visited.calls,
                       LAMBDA c : /\ Descendant(c, o)
                                  /\ 2 * c.edge_length = o.edge_length)
    IN  [j \in DOMAIN s |-> s[j].minimum]

\* The octant indices 0..7 whose bit is set in mask, in increasing order.
SetBits(mask) ==
    SelectSeq([i \in 1..8 |-> i - 1], LAMBDA i : Bit(mask, i) = 1)

\* The minima of the child octants a bitmask selects, in bit order.
ChildMinima(o, mask) ==
    LET bits == SetBits(mask) IN
    [j \in DOMAIN bits |->
        PointAdd(o.minimum,
                 PointMulScalar(CornerOffsets[bits[j] + 1], o.edge_length \div 2))]

(* C23: visit is a pre-order depth-first traversal: in a full visit, a     *)
(* visited node with an entry in the mapping is reported with              *)
(* is_leaf = false before any of its descendants, and its child octants    *)
(* are visited exactly for the bits set in its bitmask, in increasing bit  *)
(* order, the child for bit i at parent minimum + i-th corner offset times *)
(* half the parent edge; a child whose bit is clear is never visited, and  *)
(* the calls on a node's descendants directly follow the node's own call.  *)
VisitIsPreOrder ==
    FullVisit =>
        \A k \in DOMAIN visited.calls :
            LET o == visited.calls[k] IN
            Stored(o) =>
                /\ ~o.is_leaf
                /\ \A j \in DOMAIN visited.calls :
                     Descendant(visited.calls[j], o) => j > k
                /\ ChildCalls(o) =
                     ChildMinima(o, octree.nodes[PathCode(PathOf(o))])
                /\ \A j \in DOMAIN visited.calls :
                     Descendant(visited.calls[j], o) =>
                        \A i \in (k + 1)..j : Descendant(visited.calls[i], o)

\* A full visit of an edge-4 octree in which a stored node below the root
\* has both set and clear bits and is followed by several children.
VisitIsPreOrderWitness ==
    /\ FullVisit
    /\ \E k \in 2..Len(visited.calls) :
         LET o == visited.calls[k] IN
         /\ Stored(o)
         /\ Len(ChildCalls(o)) >= 2
         /\ Len(ChildCalls(o)) < 8
         /\ Bit(octree.nodes[PathCode(PathOf(o))], 0) = 0

-----------------------------------------------------------------------------
(* The location-code specification: from the root of an octree of a given  *)
(* power, one octant is chosen per descent and the code is extended as     *)
(* partition_array and _visit extend it, down to the single voxels.        *)

Powers == 1..MaxAcceptedPower

CodeInit ==
    /\ array = EmptyArray
    /\ dst = EmptyArray
    /\ octree = NoOctree
    /\ visited = NotVisited
    /\ writes = 0
    /\ \E power \in Powers :
         op = [kind |-> "locate", power |-> power, path |-> <<>>,
               location |-> RootLocation]

\* extended_location.with_lowest_octant(octant) for one child octant
Descend ==
    /\ op.kind = "locate"
    /\ Len(op.path) < op.power
    /\ \E octant \in 0..7 :
         op' = [op EXCEPT !.path = Append(@, octant),
                          !.location = WithLowestOctant(Extend(@), octant)]
    /\ UNCHANGED <<array, dst, octree, visited, writes>>

CodeNext == Descend

SpecCode == CodeInit /\ [][CodeNext]_vars

RECURSIVE DecodeLocation(_)
\* The path a location code spells: 3 bits per descent below the leading 1.
DecodeLocation(location) ==
    IF location <= 1 THEN <<>>
    ELSE Append(DecodeLocation(location \div 8), location % 8)

(* C24: for every power in 1..6 the location code of an octant of edge     *)
(* length >= 2 (root code 1, each descent (code << 3) | octant on a 16-bit *)
(* unsigned integer) keeps every significant bit and spells the octant's   *)
(* path, so distinct octants have distinct codes and no two stored nodes   *)
(* share a key.                                                            *)
LocationCodesDistinct ==
    (op.kind = "locate" /\ Len(op.path) < op.power) =>
        /\ op.location = PathCode(op.path)
        /\ op.location < U16Modulus
        /\ DecodeLocation(op.location) = op.path

\* An edge-2 octant of the deepest accepted octree, reached through octant
\* 7 at every level: its code uses all 16 bits.
LocationCodesDistinctWitness ==
    /\ op.kind = "locate"
    /\ op.power = MaxAcceptedPower
    /\ Len(op.path) = MaxAcceptedPower - 1
    /\ \A i \in DOMAIN op.path : op.path[i] = 7
    /\ op.location = U16Modulus - 1

-----------------------------------------------------------------------------
(* Copying from a procedural map.                                          *)

\* The points a copy of op.extent from a function writes: op.extent /\ dst.
FuncCopyRegion == { p \in ExtentPoints(op.extent) : InArray(dst, p) }

\* The number of times the function was evaluated at point p.
Evaluations(p) == Cardinality({ i \in DOMAIN op.evals : op.evals[i] = p })

(* C25: copying extent e from a procedural map f into a dense array dst:   *)
(* the function's read_extent yields the single pair (e, f) with e         *)
(* unclipped, and write_extent sets dst[p] = f(p) for exactly the points   *)
(* of e /\ dst.extent, evaluating f once per such point and never outside  *)
(* dst's extent, and leaves every other element of dst unchanged.          *)
FunctionCopy ==
    op.kind = "copy_fn" =>
        /\ op.reads = << [extent |-> op.extent, src |-> op.f] >>
        /\ ~op.ub
        /\ dst.extent = op.before.extent
        /\ Len(dst.values) = Len(op.before.values)
        /\ \A p \in FuncCopyRegion :
             /\ ElementAt(dst, p) = CallFunction(op.f, p)
             /\ Evaluations(p) = 1
        /\ \A i \in DOMAIN op.evals : op.evals[i] \in FuncCopyRegion
        /\ \A p \in ArrayPoints(dst) \ FuncCopyRegion :
             ElementAt(dst, p) = ElementAt(op.before, p)

\* A copy whose extent reaches outside the destination on one side and
\* leaves part of the destination untouched on the other.
FunctionCopyWitness ==
    /\ op.kind = "copy_fn"
    /\ op.f = "index"
    /\ Cardinality(FuncCopyRegion) >= 2
    /\ Cardinality(FuncCopyRegion) < NumPoints(op.extent)
    /\ Cardinality(FuncCopyRegion) < NumPoints(dst.extent)
    /\ Len(op.evals) = Cardinality(FuncCopyRegion)
    /\ \A p \in FuncCopyRegion : ElementAt(dst, p) # ElementAt(op.before, p)
    /\ dst.extent.minimum # <<0, 0, 0>>

\* The stride pair of point p: its row-major offset in the destination and
\* in the source, each from that array's own minimum and shape.
StridePair(p) == <<RowMajor(op.before, p), RowMajor(array, p)>>

(* C26: for_each_stride_parallel over an extent contained in both arrays   *)
(* calls f exactly once per point p of the extent, with the pair (stride   *)
(* of p in the first array, stride of p in the second) computed from each  *)
(* array's own minimum and shape; hence during a copy through read_extent  *)
(* and write_extent every stride used to write the destination or read the *)
(* source is less than that array's value count.                           *)
ParallelStridesInRange ==
    op.kind = "copy" =>
        /\ Len(op.pairs) = Cardinality(CopyRegion)
        /\ \A p \in CopyRegion :
             Cardinality({ i \in DOMAIN op.pairs : op.pairs[i] = StridePair(p) }) = 1
        /\ \A i \in DOMAIN op.pairs :
             /\ op.pairs[i][1] < Len(op.before.values)
             /\ op.pairs[i][2] < Len(array.values)

\* A copy between arrays of different minimum and shape that reaches the
\* last element of the destination and does not start at the source's first.
ParallelStridesWitness ==
    /\ op.kind = "copy"
    /\ array.extent.minimum # dst.extent.minimum
    /\ array.extent.shape # dst.extent.shape
    /\ Len(op.pairs) >= 2
    /\ \E i \in DOMAIN op.pairs : op.pairs[i][1] = Len(dst.values) - 1
    /\ \A i \in DOMAIN op.pairs : op.pairs[i][2] > 0
    /\ \E i \in DOMAIN op.pairs : op.pairs[i][1] # op.pairs[i][2]

-----------------------------------------------------------------------------
(* The blob specification: a compressed array is produced, its public      *)
(* fields extent and compressed_bytes are overwritten, and it is           *)
(* decompressed.                                                           *)

\* compressed.extent = extent (a public field)
SetBlobExtent ==
    /\ op.kind \in {"compress", "blob"}
    /\ \E sh \in ArrayShapes :
         /\ sh # op.compressed.extent.shape
         /\ op' = [op EXCEPT !.kind = "blob",
                             !.compressed.extent =
                                 ExtentFromMinAndShape(@.minimum, sh)]
    /\ UNCHANGED <<array, dst, octree, visited, writes>>

\* compressed.compressed_bytes.pop() (a public field)
TruncateBlob ==
    /\ op.kind \in {"compress", "blob"}
    /\ writes < MaxWrites
    /\ Len(op.compressed.compressed_bytes) > 0
    /\ op' = [op EXCEPT !.kind = "blob",
                        !.compressed.compressed_bytes =
                            SubSeq(@, 1, Len(@) - 1)]
    /\ writes' = writes + 1
    /\ UNCHANGED <<array, dst, octree, visited>>

\* compressed.decompress() on the blob as it stands
DecompressBlob ==
    /\ op.kind \in {"compress", "blob"}
    /\ \E uninit \in UninitBytes :
         op' = [kind |-> "decompress_blob", level |-> op.level,
                compressed |-> op.compressed,
                result |-> Decompress(op.compressed, uninit)]
    /\ UNCHANGED <<array, dst, octree, visited, writes>>

BlobNext ==
    \/ CompressArray
    \/ SetBlobExtent
    \/ TruncateBlob
    \/ DecompressBlob

SpecBlob == CodecInit /\ [][BlobNext]_vars

\* The blob's decoded content supplies exactly extent.num_points() values.
BlobSuppliesAllValues ==
    LET decoded == Lz4Decode(op.compressed.compressed_bytes) IN
    /\ decoded.ok
    /\ Len(decoded.bytes) = NumPoints(op.compressed.extent) * SizeOfT

(* C27: decompress never returns an array when the blob's decoded content  *)
(* does not supply exactly extent.num_points() values (broken or truncated *)
(* frame, or a decoded byte count shorter or longer than                   *)
(* num_points * size_of::<T>()): the call fails fatally.                   *)
DecompressRejectsMismatch ==
    (op.kind = "decompress_blob" /\ ~BlobSuppliesAllValues) => ~op.result.ok

-----------------------------------------------------------------------------
(* Structure of the stored nodes and of the reported leaves.               *)

\* The calls of the visit on the octant with location code c.
CallsOnCode(c) ==
    { k \in DOMAIN visited.calls :
        /\ visited.calls[k].edge_length >= 2
        /\ \E path \in OctantPaths :
             /\ PathCode(path) = c
             /\ PathMinimum(path) = visited.calls[k].minimum
             /\ PathEdge(path) = visited.calls[k].edge_length }

(* C28: every entry of the nodes mapping is reachable by traversal: for a  *)
(* stored location code c other than the root code 1 the parent code       *)
(* c >> 3 is stored too and the parent's bitmask has bit c & 7 set, so a   *)
(* full visit reports every stored node exactly once with is_leaf = false; *)
(* every stored bitmask is neither 0 nor 0xFF.                             *)
NodesReachable ==
    octree.built =>
        /\ \A c \in DOMAIN octree.nodes :
             /\ c # RootLocation =>
                  /\ (c \div 8) \in DOMAIN octree.nodes
                  /\ Bit(octree.nodes[c \div 8], c % 8) = 1
             /\ octree.nodes[c] \notin {0, 255}
        /\ FullVisit =>
             \A c \in DOMAIN octree.nodes :
                 /\ Cardinality(CallsOnCode(c)) = 1
                 /\ \A k \in CallsOnCode(c) : ~visited.calls[k].is_leaf

\* n is a power of two.
IsPowerOfTwo(n) == \E k \in 0..MaxAcceptedPower : n = 2 ^ k

(* C29: in a full visit the octants reported with is_leaf = true are       *)
(* pairwise disjoint, each lies inside the octree's extent with a          *)
(* power-of-two edge length, and every non-empty point of the source array *)
(* is contained in exactly one of them.                                    *)
LeavesPartitionOccupied ==
    FullVisit =>
        /\ \A i, j \in LeafCalls :
             i # j => OctantPoints(visited.calls[i])
                        \cap OctantPoints(visited.calls[j]) = {}
        /\ \A i \in LeafCalls :
             /\ OctantPoints(visited.calls[i]) \subseteq ExtentPoints(octree.extent)
             /\ IsPowerOfTwo(visited.calls[i].edge_length)
        /\ \A p \in ExtentPoints(array.extent) :
             Occupied(p) =>
                Cardinality({ i \in LeafCalls :
                                p \in OctantPoints(visited.calls[i]) }) = 1

\* A full visit of an edge-4 octree reporting leaves of edge 2 and of edge 1
\* below a stored root, with empty voxels left unreported.
LeavesPartitionOccupiedWitness ==
    /\ FullVisit
    /\ octree.root_level = 1
    /\ RootLocation \in DOMAIN octree.nodes
    /\ \E i \in LeafCalls : visited.calls[i].edge_length = 2
    /\ \E i \in LeafCalls : visited.calls[i].edge_length = 1
    /\ Cardinality(LeafCalls) >= 3
    /\ \E p \in ExtentPoints(array.extent) : ~Occupied(p)

-----------------------------------------------------------------------------
(* The partial order on Point2.                                            *)

\* PartialOrd for Point2<T>: lt, gt, le, ge on points <<x, y>>
Point2Lt(p, q) == p[1] < q[1] /\ p[2] < q[2]
Point2Gt(p, q) == p[1] > q[1] /\ p[2] > q[2]
Point2Le(p, q) == p[1] <= q[1] /\ p[2] <= q[2]
Point2Ge(p, q) == p[1] >= q[1] /\ p[2] >= q[2]

\* PartialOrd for Point2<T>::partial_cmp; "None" stands for Option::None.
Point2PartialCmp(p, q) ==
    IF Point2Lt(p, q) THEN "Less"
    ELSE IF Point2Gt(p, q) THEN "Greater"
    ELSE IF p[1] = q[1] /\ p[2] = q[2] THEN "Equal"
    ELSE "None"

\* The largest absolute coordinate of the points compared.
MaxCoordinate == 2

Points2 == { <<x, y>> : x \in (-MaxCoordinate)..MaxCoordinate,
                        y \in (-MaxCoordinate)..MaxCoordinate }

Point2Init ==
    /\ array = EmptyArray
    /\ dst = EmptyArray
    /\ octree = NoOctree
    /\ visited = NotVisited
    /\ writes = 0
    /\ \E p \in Points2, q \in Points2 : op = [kind |-> "points", p |-> p, q |-> q]

\* p.partial_cmp(&q), p <= q, p >= q, p < q, p > q
ComparePoints ==
    /\ op.kind = "points"
    /\ op' = [kind |-> "compared", p |-> op.p, q |-> op.q,
              partial_cmp |-> Point2PartialCmp(op.p, op.q),
              lt |-> Point2Lt(op.p, op.q), gt |-> Point2Gt(op.p, op.q),
              le |-> Point2Le(op.p, op.q), ge |-> Point2Ge(op.p, op.q)]
    /\ UNCHANGED <<array, dst, octree, visited, writes>>

Point2Next == ComparePoints

SpecPoint2 == Point2Init /\ [][Point2Next]_vars

(* C30: the partial order on Point2 is self-consistent: p <= q holds if    *)
(* and only if partial_cmp(p, q) is Some(Less) or Some(Equal), p >= q if   *)
(* and only if it is Some(Greater) or Some(Equal), and partial_cmp returns *)
(* None exactly when neither p <= q nor p >= q.                            *)
Point2OrderConsistent ==
    op.kind = "compared" =>
        /\ op.le <=> op.partial_cmp \in {"Less", "Equal"}
        /\ op.ge <=> op.partial_cmp \in {"Greater", "Equal"}
        /\ op.partial_cmp = "None" <=> (~op.le /\ ~op.ge)

=============================================================================
